---- MODULE Spec2Model ----
(***************************************************************************)
(* Model of scripts/bdf2ufo.py: the component search (get_bdf_components),  *)
(* the decomposition resolver (decompose_bdf_glyph), the anchor synthesizer *)
(* (add_anchors) and the glyph loop of add_ufo_glyphs.                      *)
(*                                                                          *)
(* A bitmap (a numpy array in the source) is a record                       *)
(*   [shape |-> <<rows, columns>>, ink |-> the set of <<y, x>> holding 1],  *)
(* with y in 0..rows-1 and x in 0..columns-1.  An offset is <<row, col>>.   *)
(***************************************************************************)
EXTENDS Integers, Sequences, FiniteSets, TLC

VARIABLES
    bdf_font,        \* [glyphs: name -> glyph, codepoints: codepoint -> name]
    pc,              \* position of the run
    composed_name,   \* the glyph being decomposed
    decomposition,   \* the constituent codepoints handed to the search
    components,      \* the result of get_bdf_components
    pending,         \* the glyph names add_ufo_glyphs has yet to visit, in order
    ufo_font,        \* name -> the references of the output glyph
    anchors,         \* name -> role -> position
    log,             \* the messages logged so far
    calls,           \* the record of the calls made so far
    config,          \* the parsed command line of main
    masters,         \* the masters get_masters returned
    exit_status,     \* "running", or the status the process ended with, as text
    output,          \* what has been created or written, in order
    rng,             \* the state of the random generator: [seed, draws]
    bdf              \* the glyphs of the source file load_bdf has yet to read

main_vars == <<config, masters, exit_status, output, rng, bdf>>

vars == <<bdf_font, pc, composed_name, decomposition, components,
          pending, ufo_font, anchors, log, calls, main_vars>>

\* the state of main in the specifications of a single function
NoRun ==
    /\ config = "None"
    /\ masters = <<>>
    /\ exit_status = "running"
    /\ output = <<>>
    /\ rng = [seed |-> 0, draws |-> 0]
    /\ bdf = <<>>

(***************************************************************************)
(* Bounds of the model.                                                     *)
(***************************************************************************)
MaxH == 2
MaxW == 2
MaxLen == 2
MaxGlyphs == 3

MaxPlacements == 3

MaxAxes == 2

MaxAscent == 3

MaxEm == 24

(***************************************************************************)
(* Static tables (the entries for the codepoints of the model).             *)
(***************************************************************************)
cpDotlessI == 305      \* U+0131
cpDieresis == 168      \* U+00A8
cpCombDieresis == 776  \* U+0308
cpCombGrave == 768     \* U+0300
cpModGrave == 715      \* U+02CB
cpIDieresis == 239     \* U+00EF
cpIGrave == 236        \* U+00EC
cpYi == 1111           \* U+0457
cpEnSpace == 8194      \* U+2002
cpSpace == 32          \* U+0020
cpOmicronTonos == 8185 \* U+1FF9
cpLongS == 383         \* U+017F
cpSuperTwo == 178      \* U+00B2
cpNoBreakSpace == 160  \* U+00A0
cpAGrave == 224        \* U+00E0
cpLatinA == 97         \* U+0061
cpLatinI == 105        \* U+0069
cpLatinS == 115        \* U+0073
cpDigitTwo == 50       \* U+0032
cpUkrainianI == 1110   \* U+0456
cpUnencoded == 0 - 1   \* the codepoint of a glyph without an encoding
cpCombCedilla == 807   \* U+0327
cpCedilla == 184       \* U+00B8
cpCCedilla == 231      \* U+00E7
cpCapCCedilla == 199   \* U+00C7
cpLatinC == 99         \* U+0063
cpCapC == 67           \* U+0043
cpLatinE == 101        \* U+0065
cpCapE == 69           \* U+0045
cpEGrave == 232        \* U+00E8
cpECedilla == 553      \* U+0229
cpCapEDieresis == 203  \* U+00CB
cpCapECedilla == 552   \* U+0228

\* combining_infos: codepoint -> (anchor role, spacing-modifier equivalent);
\* the modifier is a sequence of length 0 (None) or 1.
combining_infos ==
    (cpCombGrave :> [anchor |-> "top", modifier |-> <<cpModGrave>>]) @@
    (cpCombDieresis :> [anchor |-> "top", modifier |-> <<cpDieresis>>]) @@
    (cpCombCedilla :> [anchor |-> "cedilla", modifier |-> <<cpCedilla>>])

\* A decomposition string is [tag, codepoints]: the leading "<...>" tag ("" when
\* there is none) and the codepoints its hexadecimal words denote.
DecompositionString(tag, codepoints) == [tag |-> tag, codepoints |-> codepoints]

custom_decomposition ==
    (cpIGrave :> DecompositionString("", <<cpDotlessI, cpCombGrave>>)) @@
    (cpIDieresis :> DecompositionString("", <<cpDotlessI, cpCombDieresis>>)) @@
    (cpYi :> DecompositionString("", <<cpDotlessI, cpCombDieresis>>)) @@
    (cpLongS :> DecompositionString("", <<>>))

\* the entries of the Unicode character database for the codepoints of the
\* model
UnicodeData ==
    (cpDieresis :> DecompositionString("<compat>", <<cpSpace, cpCombDieresis>>)) @@
    (cpEnSpace :> DecompositionString("<compat>", <<cpSpace>>)) @@
    (cpNoBreakSpace :> DecompositionString("<noBreak>", <<cpSpace>>)) @@
    (cpSuperTwo :> DecompositionString("<super>", <<cpDigitTwo>>)) @@
    (cpLongS :> DecompositionString("<compat>", <<cpLatinS>>)) @@
    (cpAGrave :> DecompositionString("", <<cpLatinA, cpCombGrave>>)) @@
    (cpIGrave :> DecompositionString("", <<cpLatinI, cpCombGrave>>)) @@
    (cpIDieresis :> DecompositionString("", <<cpLatinI, cpCombDieresis>>)) @@
    (cpYi :> DecompositionString("", <<cpUkrainianI, cpCombDieresis>>)) @@
    (cpCCedilla :> DecompositionString("", <<cpLatinC, cpCombCedilla>>)) @@
    (cpCapCCedilla :> DecompositionString("", <<cpCapC, cpCombCedilla>>)) @@
    (cpEGrave :> DecompositionString("", <<cpLatinE, cpCombGrave>>)) @@
    (cpECedilla :> DecompositionString("", <<cpLatinE, cpCombCedilla>>)) @@
    (cpCapEDieresis :> DecompositionString("", <<cpCapE, cpCombDieresis>>)) @@
    (cpCapECedilla :> DecompositionString("", <<cpCapE, cpCombCedilla>>))

\* unicodedata.decomposition for the codepoints of the model
unicodedata_decomposition(codepoint) ==
    IF codepoint \in DOMAIN UnicodeData THEN UnicodeData[codepoint]
    ELSE DecompositionString("", <<>>)

custom_anchors == { cpOmicronTonos }

add_offset(a, b) == <<a[1] + b[1], a[2] + b[2]>>

subtract_offset(a, b) == <<a[1] - b[1], a[2] - b[2]>>

(***************************************************************************)
(* load_bdf: the bitmaps of the repository are cropped to their ink; a      *)
(* glyph without ink has a 1x1 bitmap holding 0.                            *)
(***************************************************************************)
Pixels(h, w) == (0 .. h - 1) \X (0 .. w - 1)

IsCropped(h, w, ink) ==
    \/ h = 1 /\ w = 1 /\ ink = {}
    \/ /\ \E p \in ink : p[1] = 0
       /\ \E p \in ink : p[1] = h - 1
       /\ \E p \in ink : p[2] = 0
       /\ \E p \in ink : p[2] = w - 1

CroppedBitmaps ==
    UNION { UNION { { [shape |-> <<h, w>>, ink |-> s] :
                        s \in { t \in SUBSET Pixels(h, w) : IsCropped(h, w, t) } }
                    : w \in 1 .. MaxW }
            : h \in 1 .. MaxH }

(***************************************************************************)
(* paint_bdf_glyph: paints the component's ink into the working bitmap, in  *)
(* row-major order, and stops at the first ink pixel that the composite     *)
(* does not have.  Returns the verdict and the working bitmap as the loop   *)
(* leaves it.                                                               *)
(***************************************************************************)
RowMajorBefore(p, q) == p[1] < q[1] \/ (p[1] = q[1] /\ p[2] < q[2])

paint_bdf_glyph(composed_bitmap, component_bitmap, offset, bitmap) ==
    LET failing == { p \in component_bitmap.ink :
                       add_offset(offset, p) \notin composed_bitmap.ink }
        first == CHOOSE p \in failing :
                   \A q \in failing : q = p \/ RowMajorBefore(p, q)
        painted == IF failing = {} THEN component_bitmap.ink
                   ELSE { p \in component_bitmap.ink : RowMajorBefore(p, first) }
    IN [ok |-> failing = {},
        bitmap |-> [bitmap EXCEPT
                      !.ink = @ \cup { add_offset(offset, p) : p \in painted }]]

(***************************************************************************)
(* get_bdf_components.  A result is [kind, list]: kind is "list" (list holds *)
(* the placements), "missing", "mismatch" or "uncomposable"; "none" stands  *)
(* for a loop that ended without returning.                                 *)
(***************************************************************************)
Classified(kind) == [kind |-> kind, list |-> <<>>]

Placements(list) == [kind |-> "list", list |-> list]

\* lines 886-887: the working bitmap of the outermost call
zeros(shape) == [shape |-> shape, ink |-> {}]

\* a variant that accepts whatever has been painted
exhausted_accepts(composed_glyph, bitmap) == Placements(<<>>)

\* lines 889-893: the constituent list is exhausted
exhausted_result(composed_glyph, bitmap) ==
    IF composed_glyph.bitmap = bitmap THEN Placements(<<>>)
    ELSE Classified("mismatch")

\* a variant that puts the placement of this level first
with_component_first(bdf_components, component_name, composed_glyph, offset) ==
    Placements(<<[name |-> component_name,
                  offset |-> add_offset(composed_glyph.offset, offset)]>>
               \o bdf_components.list)

\* lines 941-948: the placement of this level joins the list of the deeper levels
with_component(bdf_components, component_name, composed_glyph, offset) ==
    Placements(Append(bdf_components.list,
                      [name |-> component_name,
                       offset |-> add_offset(composed_glyph.offset, offset)]))

\* a variant without the self-reference test
stage2_unguarded(bdf_font_, composed_glyph, component_codepoint) ==
    IF component_codepoint \notin DOMAIN combining_infos
    THEN [kind |-> "break", codepoint |-> component_codepoint]
    ELSE LET modifier == combining_infos[component_codepoint].modifier
         IN IF modifier = <<>> \/ modifier[1] \notin DOMAIN bdf_font_.codepoints
            THEN [kind |-> "missing", codepoint |-> component_codepoint]
            ELSE [kind |-> "use", codepoint |-> modifier[1]]

\* lines 902-914: stage 2, the spacing-modifier equivalent of a combining mark.
\* "use" names the substitute codepoint; "break" leaves the stage loop.
stage2(bdf_font_, composed_glyph, component_codepoint) ==
    IF component_codepoint \notin DOMAIN combining_infos
    THEN [kind |-> "break", codepoint |-> component_codepoint]
    ELSE LET modifier == combining_infos[component_codepoint].modifier
         IN IF modifier = <<composed_glyph.codepoint>>
            THEN [kind |-> "uncomposable", codepoint |-> component_codepoint]
            ELSE IF modifier = <<>> \/ modifier[1] \notin DOMAIN bdf_font_.codepoints
            THEN [kind |-> "missing", codepoint |-> component_codepoint]
            ELSE [kind |-> "use", codepoint |-> modifier[1]]

\* a variant that never reports a missing constituent
unmatched_always_mismatch(bdf_font_, component_codepoint) ==
    Classified("mismatch")

\* lines 950-954: both stages ended without returning
unmatched_result(bdf_font_, component_codepoint) ==
    IF component_codepoint \notin DOMAIN bdf_font_.codepoints
    THEN Classified("missing")
    ELSE Classified("mismatch")

\* a variant whose loops run one step further
offset_count_inclusive(delta_size) ==
    IF delta_size[1] + 2 <= 0 \/ delta_size[2] + 2 <= 0 THEN 0
    ELSE (delta_size[1] + 2) * (delta_size[2] + 2)

\* lines 919-923: the offsets of the two nested range() loops, in scan order
offset_count(delta_size) ==
    IF delta_size[1] + 1 <= 0 \/ delta_size[2] + 1 <= 0 THEN 0
    ELSE (delta_size[1] + 1) * (delta_size[2] + 1)

\* a variant that scans column by column
nth_offset_column_major(delta_size, i) ==
    <<i % (delta_size[1] + 1), i \div (delta_size[1] + 1)>>

nth_offset(delta_size, i) ==
    <<i \div (delta_size[2] + 1), i % (delta_size[2] + 1)>>

\* lines 938-948: what the offset loop does with the result of the recursion
after_recursion(bdf_components, component_name, composed_glyph, offset) ==
    IF bdf_components.kind \in {"missing", "uncomposable"} THEN bdf_components
    ELSE IF bdf_components.kind = "list"
    THEN with_component(bdf_components, component_name, composed_glyph, offset)
    ELSE Classified("none")

RECURSIVE get_bdf_components(_, _, _, _)
RECURSIVE scan_offsets(_, _, _, _, _, _)

\* lines 916-948: the offset loops for one resolved component glyph, from the
\* i-th offset on
scan_offsets(bdf_font_, composed, decomposition_, bitmap, component_name, i) ==
    LET composed_glyph == bdf_font_.glyphs[composed]
        component_glyph == bdf_font_.glyphs[component_name]
        delta_size == subtract_offset(composed_glyph.bitmap.shape,
                                      component_glyph.bitmap.shape)
    IN IF i >= offset_count(delta_size) THEN Classified("none")
       ELSE LET offset == nth_offset(delta_size, i)
                paint == paint_bdf_glyph(composed_glyph.bitmap,
                                         component_glyph.bitmap, offset, bitmap)
            IN IF ~paint.ok
               THEN scan_offsets(bdf_font_, composed, decomposition_, bitmap,
                                 component_name, i + 1)
               ELSE LET here == after_recursion(
                                   get_bdf_components(bdf_font_, composed,
                                                      Tail(decomposition_),
                                                      paint.bitmap),
                                   component_name, composed_glyph, offset)
                    IN IF here.kind # "none" THEN here
                       ELSE scan_offsets(bdf_font_, composed, decomposition_,
                                         bitmap, component_name, i + 1)

get_bdf_components(bdf_font_, composed, decomposition_, bitmap) ==
    LET composed_glyph == bdf_font_.glyphs[composed]
    IN IF Len(decomposition_) = 0
       THEN exhausted_result(composed_glyph, bitmap)
       ELSE LET component_codepoint == decomposition_[1]
                first == IF component_codepoint \in DOMAIN bdf_font_.codepoints
                         THEN scan_offsets(bdf_font_, composed, decomposition_,
                                  bitmap,
                                  bdf_font_.codepoints[component_codepoint], 0)
                         ELSE Classified("none")
            IN IF first.kind # "none" THEN first
               ELSE LET s2 == stage2(bdf_font_, composed_glyph, component_codepoint)
                    IN IF s2.kind = "break"
                       THEN unmatched_result(bdf_font_, component_codepoint)
                       ELSE IF s2.kind # "use" THEN Classified(s2.kind)
                       ELSE LET second == scan_offsets(bdf_font_, composed,
                                              decomposition_, bitmap,
                                              bdf_font_.codepoints[s2.codepoint], 0)
                            IN IF second.kind # "none" THEN second
                               ELSE unmatched_result(bdf_font_, s2.codepoint)

\* the call of decompose_bdf_glyph (lines 979-982): bitmap is None
search(bdf_font_, composed, decomposition_) ==
    get_bdf_components(bdf_font_, composed, decomposition_,
                       zeros(bdf_font_.glyphs[composed].bitmap.shape))

(***************************************************************************)
(* The repositories of the model.  load_bdf (lines 435-505) stores every    *)
(* glyph under its name and indexes it by codepoint.                        *)
(***************************************************************************)
NameOf ==
    (cpDotlessI :> "dotlessi") @@ (cpDieresis :> "dieresis") @@
    (cpCombDieresis :> "uni0308") @@ (cpCombGrave :> "uni0300") @@
    (cpIDieresis :> "idieresis") @@ (cpIGrave :> "igrave") @@
    (cpYi :> "uni0457") @@ (cpEnSpace :> "enspace") @@
    (cpOmicronTonos :> "uni1FF9") @@ (cpLongS :> "longs") @@
    (cpSuperTwo :> "twosuperior") @@ (cpNoBreakSpace :> "uni00A0") @@
    (cpAGrave :> "agrave") @@ (cpUnencoded :> "glyph1") @@
    (cpCombCedilla :> "uni0327") @@ (cpCCedilla :> "ccedilla") @@
    (cpCapCCedilla :> "Ccedilla") @@ (cpLatinC :> "c") @@ (cpCapC :> "C") @@
    (cpLatinE :> "e") @@ (cpCapE :> "E") @@ (cpEGrave :> "egrave") @@
    (cpECedilla :> "uni0229") @@ (cpCapEDieresis :> "Edieresis") @@
    (cpCapECedilla :> "uni0228")

EmptyMap == [x \in {} |-> 0]

Glyph(codepoint, bitmap, offset) ==
    [codepoint |-> codepoint, bitmap |-> bitmap, offset |-> offset]

\* the font holding the glyphs of "present", a function codepoint -> glyph
FontOf(present) ==
    [glyphs |-> [n \in { NameOf[c] : c \in DOMAIN present } |->
                   present[CHOOSE c \in DOMAIN present : NameOf[c] = n]],
     codepoints |-> [c \in DOMAIN present |-> NameOf[c]]]

GlyphOffsets == { <<0, 0>>, <<0 - 1, 1>> }

\* the glyphs of the codepoints "have", given their bitmaps and offsets
Loaded(have, choice) ==
    [c \in have |-> Glyph(c, choice[c][1], choice[c][2])]

SeqsUpTo(S, n) == UNION { [1 .. k -> S] : k \in 1 .. n }

(***************************************************************************)
(* SearchSpec: one call of get_bdf_components, as decompose_bdf_glyph makes *)
(* it, on any repository, composite glyph and constituent list within the   *)
(* bounds.                                                                  *)
(***************************************************************************)
SearchComposites == { cpIDieresis, cpDieresis }

SearchConstituents == { cpDotlessI, cpCombDieresis }

SearchInit ==
    /\ \E c \in SearchComposites :
       \E own \in [{c} -> CroppedBitmaps \X GlyphOffsets] :
       \E have \in SUBSET ({cpDotlessI, cpCombDieresis, cpDieresis} \ {c}) :
       \E others \in [have -> CroppedBitmaps \X {<<0, 0>>}] :
          /\ bdf_font = FontOf(Loaded({c}, own) @@ Loaded(have, others))
          /\ composed_name = NameOf[c]
    /\ decomposition \in SeqsUpTo(SearchConstituents, MaxLen)
    /\ pc = "ready"
    /\ components = Classified("none")
    /\ pending = <<>>
    /\ ufo_font = EmptyMap
    /\ anchors = <<>>
    /\ log = <<>>
    /\ calls = <<>>
    /\ NoRun

Search ==
    /\ pc = "ready"
    /\ components' = search(bdf_font, composed_name, decomposition)
    /\ pc' = "searched"
    /\ UNCHANGED <<bdf_font, composed_name, decomposition, pending, ufo_font,
                   anchors, log, calls, main_vars>>

SearchNext == Search

SearchSpec == SearchInit /\ [][SearchNext]_vars

(***************************************************************************)
(* What the claims about the search speak of.                               *)
(***************************************************************************)
Composite == bdf_font.glyphs[composed_name]

Searched == pc = "searched"

Succeeded == Searched /\ components.kind = "list"

\* the ink of a placed glyph, in the coordinates of the composite's bitmap
PaintedInk(placement) ==
    { add_offset(subtract_offset(placement.offset, Composite.offset), p) :
        p \in bdf_font.glyphs[placement.name].bitmap.ink }

InsideComposite(placement) ==
    LET at == subtract_offset(placement.offset, Composite.offset)
        size == bdf_font.glyphs[placement.name].bitmap.shape
    IN /\ at[1] >= 0 /\ at[1] + size[1] <= Composite.bitmap.shape[1]
       /\ at[2] >= 0 /\ at[2] + size[2] <= Composite.bitmap.shape[2]

\* the glyphs that may stand for a constituent: its own, and the
\* spacing-modifier equivalent of a combining mark unless that is the
\* composite itself
ResolvedNames(c) ==
    { bdf_font.codepoints[d] :
        d \in { e \in DOMAIN bdf_font.codepoints :
                  \/ e = c
                  \/ /\ c \in DOMAIN combining_infos
                     /\ combining_infos[c].modifier = <<e>>
                     /\ e # Composite.codepoint } }

\* the in-bounds offsets of a glyph inside the composite's bounding box
InBounds(name) ==
    { o \in (0 .. MaxH) \X (0 .. MaxW) :
        /\ o[1] + bdf_font.glyphs[name].bitmap.shape[1] <= Composite.bitmap.shape[1]
        /\ o[2] + bdf_font.glyphs[name].bitmap.shape[2] <= Composite.bitmap.shape[2] }

ShiftedInk(name, o) ==
    { add_offset(o, p) : p \in bdf_font.glyphs[name].bitmap.ink }

\* some choice of one glyph and one in-bounds offset per constituent of d
\* paints, on top of "covered", exactly the composite
RECURSIVE Reconstructs(_, _)
Reconstructs(d, covered) ==
    IF Len(d) = 0 THEN covered = Composite.bitmap.ink
    ELSE \E name \in ResolvedNames(d[1]) :
         \E o \in InBounds(name) :
            /\ ShiftedInk(name, o) \subseteq Composite.bitmap.ink
            /\ Reconstructs(Tail(d), covered \cup ShiftedInk(name, o))

ExistsReconstruction == Reconstructs(decomposition, {})

(* C1: whenever the search returns placements, every placed glyph lies      *)
(* inside the composite's bounding box, all its ink is ink of the           *)
(* composite, and the placed glyphs together cover all the composite's ink. *)
C1_Soundness ==
    Succeeded =>
        /\ \A i \in 1 .. Len(components.list) :
              /\ InsideComposite(components.list[i])
              /\ PaintedInk(components.list[i]) \subseteq Composite.bitmap.ink
        /\ UNION { PaintedInk(components.list[i]) :
                     i \in 1 .. Len(components.list) } = Composite.bitmap.ink

C1_Witness ==
    /\ Succeeded
    /\ Len(components.list) = 2
    /\ Composite.offset # <<0, 0>>
    /\ Cardinality(Composite.bitmap.ink) = 3
    /\ \E i \in 1 .. 2 :
          subtract_offset(components.list[i].offset, Composite.offset) = <<1, 1>>

(* C2: if some choice of in-bounds offsets, one per constituent glyph found *)
(* in the repository, paints exactly the composite, the search returns      *)
(* placements.                                                              *)
C2_Completeness ==
    (Searched /\ ExistsReconstruction) => components.kind = "list"

(* C3: if every constituent codepoint has a glyph in the repository and no  *)
(* combination of offsets reconstructs the composite, the search returns    *)
(* "mismatch".                                                              *)
C3_Mismatch ==
    ( /\ Searched
      /\ \A i \in 1 .. Len(decomposition) :
            decomposition[i] \in DOMAIN bdf_font.codepoints
      /\ ~ExistsReconstruction )
    => components.kind = "mismatch"

\* the first constituent has no glyph, and no substitute either
FirstUnresolved ==
    LET c == decomposition[1]
    IN /\ c \notin DOMAIN bdf_font.codepoints
       /\ \/ c \notin DOMAIN combining_infos
          \/ /\ combining_infos[c].modifier # <<Composite.codepoint>>
             /\ \A e \in DOMAIN bdf_font.codepoints :
                   combining_infos[c].modifier # <<e>>

(* C4: if the first constituent has no glyph in the repository and is not a *)
(* combining mark, or is one whose spacing-modifier equivalent is not the   *)
(* composite's codepoint and has no glyph either, the search returns        *)
(* "missing".                                                               *)
C4_Missing ==
    (Searched /\ FirstUnresolved) => components.kind = "missing"

C4_Witness ==
    /\ Searched
    /\ FirstUnresolved
    /\ decomposition[1] \in DOMAIN combining_infos
    /\ Len(decomposition) = 2
    /\ Composite.bitmap.ink # {}
    /\ components.kind = "missing"

\* the first constituent is a combining mark whose spacing-modifier
\* equivalent is the composite's codepoint
SelfReferring ==
    /\ decomposition[1] \in DOMAIN combining_infos
    /\ combining_infos[decomposition[1]].modifier = <<Composite.codepoint>>

\* the first constituent is not satisfied by a glyph of its own codepoint: it
\* has none, or at every offset the paint fails or the remaining constituents
\* mismatch
OwnGlyphFails ==
    LET c == decomposition[1]
    IN \/ c \notin DOMAIN bdf_font.codepoints
       \/ LET name == bdf_font.codepoints[c]
          IN \A o \in InBounds(name) :
                \/ ~(ShiftedInk(name, o) \subseteq Composite.bitmap.ink)
                \/ get_bdf_components(bdf_font, composed_name,
                       Tail(decomposition),
                       [shape |-> Composite.bitmap.shape,
                        ink |-> ShiftedInk(name, o)]).kind = "mismatch"

(* C5: when the constituent a call handles is a combining mark that is not  *)
(* satisfied by a glyph of its own codepoint and its spacing-modifier       *)
(* equivalent is the composite's codepoint, the call returns                *)
(* "uncomposable"; and no returned placement names the composite glyph      *)
(* unless the composite's own codepoint is a constituent.                   *)
C5_Uncomposable ==
    /\ (Searched /\ SelfReferring /\ OwnGlyphFails)
          => components.kind = "uncomposable"
    /\ Succeeded =>
          \A i \in 1 .. Len(components.list) :
             components.list[i].name = composed_name
                => \E j \in 1 .. Len(decomposition) :
                      decomposition[j] = Composite.codepoint

C5_Witness ==
    /\ Searched
    /\ SelfReferring
    /\ decomposition[1] \in DOMAIN bdf_font.codepoints
    /\ OwnGlyphFails
    /\ Composite.bitmap.ink # {}
    /\ components.kind = "uncomposable"

Keys(d) == { d[i][1] : i \in 1 .. Len(d) }

Get(d, k) == d[CHOOSE i \in 1 .. Len(d) : d[i][1] = k][2]

Put(d, k, v) ==
    IF k \in Keys(d)
    THEN [i \in 1 .. Len(d) |-> IF d[i][1] = k THEN <<k, v>> ELSE d[i]]
    ELSE Append(d, <<k, v>>)

(***************************************************************************)
(* decompose_bdf_glyph                                                      *)
(***************************************************************************)
\* a variant that asks Unicode first and the override table only for
\* characters Unicode does not decompose
decomposition_string_unicode_first(composed_codepoint) ==
    IF composed_codepoint >= 0
       /\ unicodedata_decomposition(composed_codepoint).codepoints # <<>>
    THEN unicodedata_decomposition(composed_codepoint)
    ELSE IF composed_codepoint \in DOMAIN custom_decomposition
    THEN custom_decomposition[composed_codepoint]
    ELSE DecompositionString("", <<>>)

\* lines 961-968: the override table first, then Unicode
decomposition_string(composed_codepoint) ==
    IF composed_codepoint \in DOMAIN custom_decomposition
    THEN custom_decomposition[composed_codepoint]
    ELSE IF composed_codepoint >= 0
    THEN unicodedata_decomposition(composed_codepoint)
    ELSE DecompositionString("", <<>>)

\* lines 970-976: early says that decompose_bdf_glyph returns [] at line 973
resolve_decomposition(composed_codepoint) ==
    LET given == decomposition_string(composed_codepoint)
        stripped == IF given.tag = "<compat>" /\ given.codepoints # <<>>
                    THEN DecompositionString("", given.codepoints)
                    ELSE given
    IN IF (stripped.tag = "" /\ stripped.codepoints = <<>>) \/ stripped.tag # ""
       THEN [early |-> TRUE, decomposition |-> <<>>]
       ELSE [early |-> FALSE,
             decomposition |-> SelectSeq(stripped.codepoints,
                                         LAMBDA x : x # cpSpace)]

\* lines 984-1007: what decompose_bdf_glyph makes of the result of the search
components_of(result) ==
    IF result.kind = "list" THEN result.list ELSE <<>>

message_of(composed_codepoint, result) ==
    IF result.kind = "missing"
    THEN <<[level |-> "info", text |-> "could be composed",
            codepoint |-> composed_codepoint]>>
    ELSE IF result.kind = "mismatch"
    THEN <<[level |-> "warning", text |-> "cannot be composed",
            codepoint |-> composed_codepoint]>>
    ELSE IF result.kind = "uncomposable" THEN <<>>
    ELSE <<[level |-> "info", text |-> "composed",
            codepoint |-> composed_codepoint]>>

\* the components, the search made (none or one) and the messages logged
decompose_bdf_glyph(bdf_font_, composed) ==
    LET composed_codepoint == bdf_font_.glyphs[composed].codepoint
        resolved == resolve_decomposition(composed_codepoint)
        result == search(bdf_font_, composed, resolved.decomposition)
    IN IF resolved.early
       THEN [components |-> <<>>, searches |-> <<>>, messages |-> <<>>]
       ELSE [components |-> components_of(result),
             searches |-> <<[composed |-> composed,
                             decomposition |-> resolved.decomposition,
                             result |-> result]>>,
             messages |-> message_of(composed_codepoint, result)]

(***************************************************************************)
(* add_ufo_bitmap and add_ufo_components: the references of an output       *)
(* glyph, [name, offset] with the offset in pixels: the pixel an element    *)
(* ("_") is centred on, the translation of a constituent glyph.             *)
(***************************************************************************)
PixelSeq(shape) ==
    [i \in 1 .. shape[1] * shape[2] |->
        <<(i - 1) \div shape[2], (i - 1) % shape[2]>>]

InkSeq(bitmap) == SelectSeq(PixelSeq(bitmap.shape), LAMBDA p : p \in bitmap.ink)

\* a variant that emits an element for every pixel, ink or not
add_ufo_bitmap_every_pixel(bdf_glyph) ==
    [i \in 1 .. Len(PixelSeq(bdf_glyph.bitmap.shape)) |->
        [name |-> "_",
         offset |-> add_offset(bdf_glyph.offset,
                               PixelSeq(bdf_glyph.bitmap.shape)[i])]]

add_ufo_bitmap(bdf_glyph) ==
    [i \in 1 .. Len(InkSeq(bdf_glyph.bitmap)) |->
        [name |-> "_",
         offset |-> add_offset(bdf_glyph.offset, InkSeq(bdf_glyph.bitmap)[i])]]

\* a variant that takes the placement for the translation
add_ufo_components_absolute(bdf_font_, components_) ==
    [i \in 1 .. Len(components_) |->
        [name |-> components_[i].name, offset |-> components_[i].offset]]

add_ufo_components(bdf_font_, components_) ==
    [i \in 1 .. Len(components_) |->
        [name |-> components_[i].name,
         offset |-> subtract_offset(components_[i].offset,
                        bdf_font_.glyphs[components_[i].name].offset)]]

(***************************************************************************)
(* add_anchors.  Returns the anchors, whether the call recorded or compared *)
(* anchors (engaged), the base-side position it derived and whether it      *)
(* warned of a conflict.                                                    *)
(***************************************************************************)
IsCombining(bdf_font_, component) ==
    bdf_font_.glyphs[component.name].codepoint \in DOMAIN combining_infos

\* a variant that puts every attachment point on the top row
synthesized_anchor_on_top(anchor_name, combining_size) ==
    <<0, combining_size[2] \div 2>>

\* lines 1105-1110: the attachment point of a mark, relative to its bitmap
synthesized_anchor(anchor_name, combining_size) ==
    IF anchor_name \notin {"bottom", "cedilla", "ogonek"}
    THEN <<0, combining_size[2] \div 2>>
    ELSE <<combining_size[1], combining_size[2] \div 2>>

\* a variant that moves the anchor by the placement of the base instead of
\* taking it back
base_anchor_offset_added(anchor_offset, base_offset, base_glyph_offset) ==
    add_offset(add_offset(anchor_offset, base_offset), base_glyph_offset)

\* a variant that forgets where the base glyph was placed
base_anchor_offset_unplaced(anchor_offset, base_offset, base_glyph_offset) ==
    add_offset(anchor_offset, base_glyph_offset)

\* lines 1128-1131: the anchor in the coordinates of the base glyph
base_anchor_offset(anchor_offset, base_offset, base_glyph_offset) ==
    add_offset(subtract_offset(anchor_offset, base_offset), base_glyph_offset)

Untouched(anchors_) ==
    [anchors |-> anchors_, engaged |-> FALSE, derived |-> <<0, 0>>,
     warned |-> FALSE]

\* a variant in which the position derived last replaces the recorded one
attach_overwriting(anchors_, bdf_font_, combining, base) ==
    LET combining_glyph == bdf_font_.glyphs[combining.name]
        anchor_name == combining_infos[combining_glyph.codepoint].anchor
        a1 == IF combining.name \in Keys(anchors_) THEN anchors_
              ELSE Put(anchors_, combining.name, <<>>)
        combining_anchors == Get(a1, combining.name)
        fresh == anchor_name \notin Keys(combining_anchors)
        combining_anchor_offset ==
            IF fresh
            THEN synthesized_anchor(anchor_name, combining_glyph.bitmap.shape)
            ELSE subtract_offset(Get(combining_anchors, anchor_name),
                                 combining_glyph.offset)
        a2 == IF fresh
              THEN Put(a1, combining.name,
                       Put(combining_anchors, anchor_name,
                           add_offset(combining_glyph.offset,
                                      combining_anchor_offset)))
              ELSE a1
        a3 == IF base.name \in Keys(a2) THEN a2 ELSE Put(a2, base.name, <<>>)
        anchor_offset ==
            base_anchor_offset(add_offset(combining.offset, combining_anchor_offset),
                               base.offset, bdf_font_.glyphs[base.name].offset)
        base_anchors == Get(a3, base.name)
    IN [anchors |-> Put(a3, base.name,
                        Put(base_anchors, anchor_name, anchor_offset)),
        engaged |-> TRUE, derived |-> anchor_offset,
        warned |-> /\ anchor_name \in Keys(base_anchors)
                   /\ Get(base_anchors, anchor_name) # anchor_offset]

\* lines 1099-1143, for the mark and the base found by lines 1073-1097
attach(anchors_, bdf_font_, combining, base) ==
    LET combining_glyph == bdf_font_.glyphs[combining.name]
        anchor_name == combining_infos[combining_glyph.codepoint].anchor
        a1 == IF combining.name \in Keys(anchors_) THEN anchors_
              ELSE Put(anchors_, combining.name, <<>>)
        combining_anchors == Get(a1, combining.name)
        fresh == anchor_name \notin Keys(combining_anchors)
        combining_anchor_offset ==
            IF fresh
            THEN synthesized_anchor(anchor_name, combining_glyph.bitmap.shape)
            ELSE subtract_offset(Get(combining_anchors, anchor_name),
                                 combining_glyph.offset)
        a2 == IF fresh
              THEN Put(a1, combining.name,
                       Put(combining_anchors, anchor_name,
                           add_offset(combining_glyph.offset,
                                      combining_anchor_offset)))
              ELSE a1
        a3 == IF base.name \in Keys(a2) THEN a2 ELSE Put(a2, base.name, <<>>)
        anchor_offset ==
            base_anchor_offset(add_offset(combining.offset, combining_anchor_offset),
                               base.offset, bdf_font_.glyphs[base.name].offset)
        base_anchors == Get(a3, base.name)
    IN IF anchor_name \notin Keys(base_anchors)
       THEN [anchors |-> Put(a3, base.name,
                             Put(base_anchors, anchor_name, anchor_offset)),
             engaged |-> TRUE, derived |-> anchor_offset, warned |-> FALSE]
       ELSE [anchors |-> a3, engaged |-> TRUE, derived |-> anchor_offset,
             warned |-> Get(base_anchors, anchor_name) # anchor_offset]

\* a variant without the exclusion list
add_anchors_unlisted(anchors_, bdf_font_, composed_codepoint, components_) ==
    IF Len(components_) # 2 THEN Untouched(anchors_)
    ELSE LET marks == { i \in 1 .. 2 : IsCombining(bdf_font_, components_[i]) }
         IN IF Cardinality(marks) # 1 THEN Untouched(anchors_)
            ELSE attach(anchors_, bdf_font_,
                        components_[CHOOSE i \in marks : TRUE],
                        components_[CHOOSE i \in 1 .. 2 : i \notin marks])

add_anchors(anchors_, bdf_font_, composed_codepoint, components_) ==
    IF composed_codepoint \in custom_anchors THEN Untouched(anchors_)
    ELSE IF Len(components_) # 2 THEN Untouched(anchors_)
    ELSE LET marks == { i \in 1 .. 2 : IsCombining(bdf_font_, components_[i]) }
         IN IF Cardinality(marks) # 1 THEN Untouched(anchors_)
            ELSE attach(anchors_, bdf_font_,
                        components_[CHOOSE i \in marks : TRUE],
                        components_[CHOOSE i \in 1 .. 2 : i \notin marks])

conflict_message(composed_codepoint, outcome) ==
    IF outcome.warned
    THEN <<[level |-> "warning", text |-> "anchor does not align",
            codepoint |-> composed_codepoint]>>
    ELSE <<>>

(***************************************************************************)
(* Spec: the glyph loop of add_ufo_glyphs (lines 1293-1312) on a font as    *)
(* load_bdf leaves it.  The loop visits the glyphs in the order load_bdf    *)
(* stored them: the glyphs of the source file (here by ascending            *)
(* codepoint), then the combining marks load_bdf added.                     *)
(***************************************************************************)
BuildCodepoints ==
    { cpDotlessI, cpCombDieresis, cpDieresis, cpIDieresis, cpEnSpace }

BuildOffsets == { <<0 - 1, 1>> }

\* lines 507-526: a combining mark without a glyph gets the glyph of its
\* spacing-modifier equivalent, when the codepoint subset admits it
load_bdf(present, subset) ==
    LET added == { c \in DOMAIN combining_infos :
                     /\ c \notin DOMAIN present
                     /\ c \in subset
                     /\ \E m \in DOMAIN present :
                           combining_infos[c].modifier = <<m>> }
    IN FontOf([c \in DOMAIN present \cup added |->
                 IF c \in DOMAIN present THEN present[c]
                 ELSE [present[combining_infos[c].modifier[1]]
                         EXCEPT !.codepoint = c]])

\* the sequence of the elements of a set of codepoints, ascending
RECURSIVE Ascending(_)
Ascending(S) ==
    IF S = {} THEN <<>>
    ELSE LET least == CHOOSE c \in S : \A d \in S : c <= d
         IN <<least>> \o Ascending(S \ {least})

Init ==
    /\ \E have \in SUBSET BuildCodepoints :
       \E choice \in [have -> CroppedBitmaps \X BuildOffsets] :
       \E subset \in { BuildCodepoints,
                       BuildCodepoints \ DOMAIN combining_infos } :
          /\ Cardinality(have) <= MaxGlyphs
          /\ have \subseteq subset
          /\ bdf_font = load_bdf(Loaded(have, choice), subset)
          /\ pending = [i \in 1 .. Cardinality(DOMAIN bdf_font.codepoints) |->
                          NameOf[(Ascending(have) \o
                                  Ascending(DOMAIN bdf_font.codepoints \ have))[i]]]
    /\ pc = "glyphs"
    /\ composed_name = ""
    /\ decomposition = <<>>
    /\ components = Classified("none")
    /\ ufo_font = EmptyMap
    /\ anchors = <<>>
    /\ log = <<>>
    /\ calls = <<>>
    /\ NoRun

\* lines 1295-1312: one turn of the loop
AddUfoGlyph(name) ==
    /\ pc = "glyphs"
    /\ pending # <<>>
    /\ name = Head(pending)
    /\ LET composed_glyph == bdf_font.glyphs[name]
           decomposed == decompose_bdf_glyph(bdf_font, name)
           outcome == IF Len(decomposed.components) = 0
                      THEN Untouched(anchors)
                      ELSE add_anchors(anchors, bdf_font,
                                       composed_glyph.codepoint,
                                       decomposed.components)
       IN /\ ufo_font' =
                (name :> IF Len(decomposed.components) = 0
                         THEN add_ufo_bitmap(composed_glyph)
                         ELSE add_ufo_components(bdf_font,
                                                 decomposed.components))
                @@ ufo_font
          /\ anchors' = outcome.anchors
          /\ log' = log \o decomposed.messages
                        \o conflict_message(composed_glyph.codepoint, outcome)
          /\ calls' = calls \o decomposed.searches
          /\ components' = IF decomposed.searches = <<>>
                           THEN Classified("none")
                           ELSE decomposed.searches[1].result
          /\ decomposition' = resolve_decomposition(
                                  composed_glyph.codepoint).decomposition
    /\ composed_name' = name
    /\ pending' = Tail(pending)
    /\ UNCHANGED <<bdf_font, pc, main_vars>>

Next == \E name \in DOMAIN bdf_font.glyphs : AddUfoGlyph(name)

Spec == Init /\ [][Next]_vars

(***************************************************************************)
(* What the claims about the glyph loop speak of.                           *)
(***************************************************************************)
Visited == DOMAIN ufo_font

\* the searches made for a glyph
SearchesOf(name) == SelectSeq(calls, LAMBDA call : call.composed = name)

\* the output glyph holds one element per ink pixel of its own bitmap, each
\* on its own pixel, and nothing else
RenderedFromBitmap(name) ==
    LET refs == ufo_font[name]
        glyph == bdf_font.glyphs[name]
    IN /\ Len(refs) = Cardinality(glyph.bitmap.ink)
       /\ \A i \in 1 .. Len(refs) : refs[i].name = "_"
       /\ { refs[i].offset : i \in 1 .. Len(refs) } =
             { add_offset(glyph.offset, p) : p \in glyph.bitmap.ink }

\* the output glyph holds one constituent reference per placement, in the
\* order of the placements, and no element
RenderedFromPlacements(name, list) ==
    LET refs == ufo_font[name]
    IN /\ Len(refs) = Len(list)
       /\ \A i \in 1 .. Len(refs) :
             refs[i].name = list[i].name /\ refs[i].name # "_"

(* C8: for every glyph whose resolved constituent sequence is empty, no     *)
(* search is made and the glyph is rendered from its own bitmap.            *)
C8_EmptyNeverSearched ==
    \A name \in Visited :
       resolve_decomposition(bdf_font.glyphs[name].codepoint).decomposition = <<>>
          => SearchesOf(name) = <<>> /\ RenderedFromBitmap(name)

(* C9: every visited glyph is rendered from its own bitmap when there was   *)
(* no search or the search ended "missing", "mismatch" or "uncomposable",   *)
(* and from the placements when the search returned some; every glyph of    *)
(* the font is either visited or still to be visited, whatever the searches *)
(* before it returned.                                                      *)
C9_FallbackValid ==
    /\ \A name \in Visited :
          LET mine == SearchesOf(name)
          IN /\ Len(mine) <= 1
             /\ IF mine = <<>> \/ mine[1].result.kind # "list"
                THEN RenderedFromBitmap(name)
                ELSE RenderedFromPlacements(name, mine[1].result.list)
    /\ Visited \cup { pending[i] : i \in 1 .. Len(pending) } =
          DOMAIN bdf_font.glyphs

C9_Witness ==
    /\ pending = <<>>
    /\ "idieresis" \in Visited /\ "dieresis" \in Visited
    /\ SearchesOf("idieresis")[1].result.kind = "mismatch"
    /\ Cardinality(bdf_font.glyphs["idieresis"].bitmap.ink) = 3
    /\ RenderedFromBitmap("idieresis")
    /\ SearchesOf("dieresis")[1].result.kind = "list"
    /\ Len(ufo_font["dieresis"]) = 1
    /\ ufo_font["dieresis"][1].name = "uni0308"

(***************************************************************************)
(* AnchorSpec: the calls of add_anchors of one build (line 1311), one per   *)
(* composite glyph, in any order, each on the placements of a successful    *)
(* search: the constituents of the composite's decomposition, last          *)
(* constituent first, at any of the offsets of the model.  The font holds   *)
(* the constituent glyphs; add_anchors reads no other glyph.                *)
(***************************************************************************)
AnchorComposites == { cpIDieresis, cpYi, cpIGrave }

FullBitmaps ==
    { [shape |-> <<h, w>>, ink |-> Pixels(h, w)] :
        h \in 1 .. MaxH, w \in 1 .. MaxW }

BasePlacements == { <<0, 0>>, <<1, 0>> }

MarkPlacements == { <<0, 0>>, <<1, 0>> }

AnchorInit ==
    /\ \E base \in [{cpDotlessI} -> {zeros(<<1, 1>>)} \X GlyphOffsets] :
       \E marks \in [{cpCombDieresis, cpCombGrave} ->
                       FullBitmaps \X GlyphOffsets] :
          bdf_font = FontOf(Loaded({cpDotlessI}, base) @@
                            Loaded({cpCombDieresis, cpCombGrave}, marks))
    /\ pending = AnchorComposites
    /\ pc = "anchors"
    /\ composed_name = ""
    /\ decomposition = <<>>
    /\ components = Classified("none")
    /\ ufo_font = EmptyMap
    /\ anchors = <<>>
    /\ log = <<>>
    /\ calls = <<>>
    /\ NoRun

AddAnchorsCall(codepoint, base_at, mark_at) ==
    /\ pc = "anchors"
    /\ codepoint \in pending
    /\ LET d == resolve_decomposition(codepoint).decomposition
           list == <<[name |-> bdf_font.codepoints[d[2]], offset |-> mark_at],
                     [name |-> bdf_font.codepoints[d[1]], offset |-> base_at]>>
           outcome == add_anchors(anchors, bdf_font, codepoint, list)
       IN /\ Len(d) = 2
          /\ anchors' = outcome.anchors
          /\ log' = log \o conflict_message(codepoint, outcome)
          /\ calls' = Append(calls,
                        [codepoint |-> codepoint, components |-> list,
                         engaged |-> outcome.engaged,
                         derived |-> outcome.derived,
                         warned |-> outcome.warned])
          /\ components' = Placements(list)
          /\ decomposition' = d
    /\ composed_name' = NameOf[codepoint]
    /\ pending' = pending \ {codepoint}
    /\ UNCHANGED <<bdf_font, pc, ufo_font, main_vars>>

AnchorNext ==
    \E codepoint \in AnchorComposites :
    \E base_at \in BasePlacements :
    \E mark_at \in MarkPlacements :
       AddAnchorsCall(codepoint, base_at, mark_at)

AnchorSpec == AnchorInit /\ [][AnchorNext]_vars

(***************************************************************************)
(* What the claims about the anchors speak of.                              *)
(***************************************************************************)
MarkOf(call) ==
    call.components[CHOOSE i \in 1 .. 2 : IsCombining(bdf_font, call.components[i])]

BaseOf(call) ==
    call.components[CHOOSE i \in 1 .. 2 : ~IsCombining(bdf_font, call.components[i])]

RoleOf(call) ==
    combining_infos[bdf_font.glyphs[MarkOf(call).name].codepoint].anchor

\* where the mark sits relative to the base, each in its own coordinates
RelativePlacement(call) ==
    subtract_offset(
        subtract_offset(MarkOf(call).offset,
                        bdf_font.glyphs[MarkOf(call).name].offset),
        subtract_offset(BaseOf(call).offset,
                        bdf_font.glyphs[BaseOf(call).name].offset))

\* two calls for different composites with the same base glyph, the same mark
\* glyph and the same relative placement
Agreeing(i, j) ==
    /\ i < j
    /\ calls[i].engaged /\ calls[j].engaged
    /\ calls[i].codepoint # calls[j].codepoint
    /\ BaseOf(calls[i]).name = BaseOf(calls[j]).name
    /\ MarkOf(calls[i]).name = MarkOf(calls[j]).name
    /\ RelativePlacement(calls[i]) = RelativePlacement(calls[j])

(* C10 (as claimed): two composites with the same base glyph, the same mark *)
(* glyph and the same relative placement derive the same base-side anchor   *)
(* and neither emits a conflict warning.                                    *)
C10_NoWarning ==
    \A i, j \in 1 .. Len(calls) :
       Agreeing(i, j) =>
          /\ calls[i].derived = calls[j].derived
          /\ ~calls[i].warned /\ ~calls[j].warned

(* C10 (amended): they derive the same base-side anchor, and either both    *)
(* emit the conflict warning or neither does; they emit it only when a      *)
(* composite processed before both recorded another position for that base *)
(* glyph and role.                                                          *)
C10_Agreement ==
    \A i, j \in 1 .. Len(calls) :
       Agreeing(i, j) =>
          /\ calls[i].derived = calls[j].derived
          /\ calls[i].warned = calls[j].warned
          /\ calls[j].warned =>
                \E k \in 1 .. i - 1 :
                   /\ calls[k].engaged
                   /\ BaseOf(calls[k]).name = BaseOf(calls[i]).name
                   /\ RoleOf(calls[k]) = RoleOf(calls[i])
                   /\ calls[k].derived # calls[i].derived

C10_Witness ==
    /\ Len(calls) = 2
    /\ Agreeing(1, 2)
    /\ BaseOf(calls[1]).offset # BaseOf(calls[2]).offset
    /\ MarkOf(calls[1]).offset # MarkOf(calls[2]).offset
    /\ bdf_font.glyphs["dotlessi"].offset # bdf_font.glyphs["uni0308"].offset
    /\ ~calls[2].warned
    /\ Get(Get(anchors, "dotlessi"), "top") = calls[2].derived

\* a dictionary holds each of its keys once
DistinctKeys(d) == \A i, j \in 1 .. Len(d) : d[i][1] = d[j][1] => i = j

\* every position recorded in "before" is recorded, unchanged, in "after"
Kept(before, after) ==
    \A g \in Keys(before) :
       /\ g \in Keys(after)
       /\ \A r \in Keys(Get(before, g)) :
             /\ r \in Keys(Get(after, g))
             /\ Get(Get(after, g), r) = Get(Get(before, g), r)

\* one call of add_anchors: each glyph holds at most one position per role,
\* nothing recorded before the call is changed or removed, and a call that
\* warns found another position recorded for the base glyph and left it
FirstValueKept ==
    LET call == calls'[Len(calls')]
    IN /\ DistinctKeys(anchors')
       /\ \A g \in Keys(anchors') : DistinctKeys(Get(anchors', g))
       /\ Kept(anchors, anchors')
       /\ call.warned =>
             /\ BaseOf(call).name \in Keys(anchors)
             /\ RoleOf(call) \in Keys(Get(anchors, BaseOf(call).name))
             /\ Get(Get(anchors', BaseOf(call).name), RoleOf(call))
                   = Get(Get(anchors, BaseOf(call).name), RoleOf(call))
             /\ Get(Get(anchors', BaseOf(call).name), RoleOf(call))
                   # call.derived

EngageComposites == { cpIDieresis, cpOmicronTonos }

EngageGlyphs == { cpDotlessI, cpCombDieresis, cpDieresis }

EngageInit ==
    /\ \E mark \in FullBitmaps \X GlyphOffsets :
          bdf_font = FontOf(Loaded({cpDotlessI},
                                   [c \in {cpDotlessI} |->
                                       <<zeros(<<1, 1>>), <<0, 0>>>>]) @@
                            Loaded({cpCombDieresis, cpDieresis},
                                   [c \in {cpCombDieresis, cpDieresis} |-> mark]))
    /\ pending = EngageComposites
    /\ pc = "engage"
    /\ composed_name = ""
    /\ decomposition = <<>>
    /\ components = Classified("none")
    /\ ufo_font = EmptyMap
    /\ anchors = <<>>
    /\ log = <<>>
    /\ calls = <<>>
    /\ NoRun

AddAnchorsAny(codepoint, glyphs, first_at) ==
    /\ pc = "engage"
    /\ codepoint \in pending
    /\ LET list == [i \in 1 .. Len(glyphs) |->
                      [name |-> bdf_font.codepoints[glyphs[i]],
                       offset |-> IF i = 1 THEN first_at ELSE <<0, 0>>]]
           outcome == add_anchors(anchors, bdf_font, codepoint, list)
       IN /\ anchors' = outcome.anchors
          /\ log' = log \o conflict_message(codepoint, outcome)
          /\ calls' = Append(calls,
                        [codepoint |-> codepoint, components |-> list,
                         engaged |-> outcome.engaged,
                         derived |-> outcome.derived,
                         warned |-> outcome.warned])
          /\ components' = Placements(list)
    /\ composed_name' = NameOf[codepoint]
    /\ pending' = pending \ {codepoint}
    /\ UNCHANGED <<bdf_font, pc, ufo_font, decomposition, main_vars>>

EngageNext ==
    \E codepoint \in EngageComposites :
    \E glyphs \in SeqsUpTo(EngageGlyphs, MaxPlacements) :
    \E first_at \in MarkPlacements :
       AddAnchorsAny(codepoint, glyphs, first_at)

EngageSpec == EngageInit /\ [][EngageNext]_vars

\* the placed glyphs whose codepoint is in the combining-mark table
MarksAmong(list) ==
    { i \in 1 .. Len(list) :
        bdf_font.glyphs[list[i].name].codepoint \in DOMAIN combining_infos }

\* the conditions under which the claim says anchors are recorded
Engages(call) ==
    /\ call.codepoint \notin custom_anchors
    /\ Len(call.components) = 2
    /\ Cardinality(MarksAmong(call.components)) = 1

\* one call of add_anchors, against the anchors before and after it
EngagedExactlyWhen ==
    LET call == calls'[Len(calls')]
    IN IF Engages(call)
       THEN \A i \in 1 .. 2 :
               /\ call.components[i].name \in Keys(anchors')
               /\ RoleOf(call) \in Keys(Get(anchors', call.components[i].name))
       ELSE anchors' = anchors

(* C12: add_anchors leaves a position for the mark's role on both the base  *)
(* glyph and the mark glyph when the composite is not on the exclusion      *)
(* list, there are exactly two placements and exactly one of the placed     *)
(* glyphs is a combining mark; in every other case the anchors are left     *)
(* unchanged.                                                               *)
C12_Engagement == [][EngagedExactlyWhen]_vars

\* after an engaging call, a call for the excluded codepoint on a base and a
\* mark, which leaves the anchors alone
C12_Witness ==
    /\ Len(calls) = 2
    /\ Engages(calls[1])
    /\ anchors # <<>>
    /\ calls[2].codepoint = cpOmicronTonos
    /\ Len(calls[2].components) = 2
    /\ Cardinality(MarksAmong(calls[2].components)) = 1
    /\ ~calls[2].engaged

(***************************************************************************)
(* The axes.  axes_info (lines 306-312) with its values in tenths, so that  *)
(* 0.1 is 1 and 1 is 10.  An optional argument is [given, items]: given is  *)
(* FALSE for None.  The items of an axes string are its comma-separated     *)
(* parts; an item is [axis, parts, value]: the text before the first "=",   *)
(* the number of "="-separated parts and the number after the "=" (in       *)
(* tenths); the empty item has axis "".                                     *)
(***************************************************************************)
AxesOrder == <<"ESIZ", "ROND", "BLED", "XESP", "EJIT">>

axes_info ==
    [axis \in { AxesOrder[i] : i \in 1 .. Len(AxesOrder) } |->
        CASE axis = "ESIZ" -> [min |-> 1, max |-> 10, default |-> 10]
          [] axis = "ROND" -> [min |-> 0, max |-> 10, default |-> 0]
          [] axis = "BLED" -> [min |-> 0, max |-> 10, default |-> 0]
          [] axis = "XESP" -> [min |-> 5, max |-> 10, default |-> 10]
          [] axis = "EJIT" -> [min |-> 0, max |-> 1, default |-> 0]]

None == [given |-> FALSE, items |-> <<>>]

Given(items) == [given |-> TRUE, items |-> items]

Item(axis, parts, value) == [axis |-> axis, parts |-> parts, value |-> value]

\* lines 400-414: the loop of parse_axes_string; log_error (lines 333-337)
\* ends the process, which ok = FALSE stands for
RECURSIVE parse_axis_items(_, _)
parse_axis_items(items, axes) ==
    IF items = <<>> THEN [ok |-> TRUE, axes |-> axes]
    ELSE LET item == Head(items)
         IN IF item.axis = "" THEN parse_axis_items(Tail(items), axes)
            ELSE IF item.axis \notin DOMAIN axes_info
            THEN [ok |-> FALSE, axes |-> axes]
            ELSE IF item.parts = 1
            THEN parse_axis_items(Tail(items), Put(axes, item.axis, 0))
            ELSE IF item.parts = 2
            THEN parse_axis_items(Tail(items), Put(axes, item.axis, item.value))
            ELSE parse_axis_items(Tail(items), axes)

parse_axes_string(axes_string) ==
    IF ~axes_string.given THEN [ok |-> TRUE, axes |-> <<>>]
    ELSE parse_axis_items(axes_string.items, <<>>)

\* the keys of a dictionary, in order
KeySeq(d) == [i \in 1 .. Len(d) |-> d[i][1]]

(***************************************************************************)
(* get_masters (lines 1317-1347)                                            *)
(***************************************************************************)
\* a variant that tests the lowest bit for every axis
BitSet_lowest(master_index, axis_index) == master_index % 2 = 1

\* line 1330: master_index & (1 << axis_index), axis_index from 0
BitSet(master_index, axis_index) ==
    (master_index \div (2 ^ axis_index)) % 2 = 1

\* lines 1327-1335: the name and the location after the first k axes
RECURSIVE master_at(_, _, _)
master_at(variable_axes, master_index, k) ==
    IF k = 0 THEN [name |-> "", location |-> <<>>]
    ELSE LET before == master_at(variable_axes, master_index, k - 1)
             axis == variable_axes[k]
         IN IF ~BitSet(master_index, k - 1)
            THEN [name |-> before.name \o axis \o "min",
                  location |-> Put(before.location, axis, axes_info[axis].min)]
            ELSE [name |-> before.name \o axis \o "max",
                  location |-> Put(before.location, axis, axes_info[axis].max)]

get_masters(bdf_font_) ==
    LET masters_num == Len(bdf_font_.variable_axes)
    IN IF masters_num >= 1
       THEN [i \in 1 .. 2 ^ masters_num |->
               master_at(bdf_font_.variable_axes, i - 1, masters_num)]
       ELSE <<[name |-> "", location |-> <<>>]>>

(***************************************************************************)
(* main (lines 1542-1582) and the part of load_bdf that reads the axes      *)
(* (lines 607-634).                                                         *)
(***************************************************************************)
\* line 617: ','.join(components[1:]), split again by parse_axes_string
instance_location_string(instance) ==
    IF instance.location = <<>> THEN <<Item("", 1, 0)>> ELSE instance.location

\* lines 610-621: the instances, parsed in order; ok = FALSE once one fails
RECURSIVE parse_instances(_)
parse_instances(instance_strings) ==
    IF instance_strings = <<>> THEN [ok |-> TRUE, instances |-> <<>>]
    ELSE LET instance == instance_strings[1]
             location == parse_axes_string(
                             Given(instance_location_string(instance)))
             rest == parse_instances(Tail(instance_strings))
         IN IF ~location.ok THEN [ok |-> FALSE, instances |-> <<>>]
            ELSE [ok |-> rest.ok,
                  instances |-> <<[name |-> instance.name,
                                   location |-> location.axes]>>
                                \o rest.instances]

\* lines 629-630: every axis at its default
RECURSIVE default_location(_)
default_location(k) ==
    IF k = 0 THEN <<>>
    ELSE Put(default_location(k - 1), AxesOrder[k],
             axes_info[AxesOrder[k]].default)

\* lines 632-633: the static axes replace the defaults
RECURSIVE with_static(_, _)
with_static(location, static) ==
    IF static = <<>> THEN location
    ELSE with_static(Put(location, static[1][1], static[1][2]), Tail(static))

\* lines 607-634; ok = FALSE when log_error ended the process
load_axes(config_) ==
    LET variable == parse_axes_string(config_.variable_axes)
        variable_axes == KeySeq(variable.axes)
        parsed == IF Len(variable_axes) > 0
                  THEN parse_instances(config_.variable_instance.items)
                  ELSE [ok |-> TRUE,
                        instances |-> <<[name |-> "", location |-> <<>>]>>]
        static == parse_axes_string(config_.static_axes)
    IN [ok |-> variable.ok /\ parsed.ok /\ static.ok,
        variable_axes |-> variable_axes,
        variable_instances |-> parsed.instances,
        location |-> with_static(default_location(Len(AxesOrder)), static.axes)]

(***************************************************************************)
(* The random generator and the jitter (lines 1010-1017).  The generator is *)
(* a function of its seed and of the number of draws since it was seeded:   *)
(* gauss(0, sigma) is sigma times a standard deviate, which the model reads *)
(* from a table, in hundredths.  With sigma in tenths, a value is a number  *)
(* of thousandths.                                                          *)
(***************************************************************************)
Deviates == <<150, 0 - 30, 0, 400, 0 - 250, 70, 0>>

standard_deviate(rng_) ==
    Deviates[((rng_.seed * 3 + rng_.draws) % Len(Deviates)) + 1]

\* a variant that leaves the generator as it is
random_seed_kept(rng_, seed) == rng_

\* random.seed (line 1557)
random_seed(rng_, seed) == [seed |-> seed, draws |-> 0]

\* lines 1011-1015: draw until the magnitude is below 1; the value is in
\* thousandths
RECURSIVE random_gauss_below_1(_, _)
random_gauss_below_1(sigma, rng_) ==
    LET value == standard_deviate(rng_) * sigma
        drawn == [rng_ EXCEPT !.draws = @ + 1]
    IN IF value < 1000 /\ value > 0 - 1000
       THEN [value |-> value, rng |-> drawn]
       ELSE random_gauss_below_1(sigma, drawn)

\* lines 1010-1017; the offset is in thousandths of a font unit
get_random_offset(bdf_font_, rng_) ==
    LET drawn == random_gauss_below_1(Get(bdf_font_.location, "EJIT"), rng_)
    IN [value |-> drawn.value * bdf_font_.units_per_element_y,
        rng |-> drawn.rng]

\* lines 1028-1038: the position of the element of pixel <<y, x>>, as
\* <<ufo_x, ufo_y>>, and the generator after its two offsets.
\* units_per_element_x (line 653) is XESP * units_per_element_y.
element_position(bdf_font_, bdf_glyph, pixel, rng_) ==
    LET jitter_y == get_random_offset(bdf_font_, rng_)
        jitter_x == get_random_offset(bdf_font_, jitter_y.rng)
        ufo_y == (2 * (bdf_glyph.offset[1] + pixel[1]) + 1) * 500
                    * bdf_font_.units_per_element_y + jitter_y.value
        ufo_x == (2 * (bdf_font_.glyph_offset_x + bdf_glyph.offset[2] + pixel[2])
                    + 1) * 50 * Get(bdf_font_.location, "XESP")
                    * bdf_font_.units_per_element_y + jitter_x.value
    IN [position |-> <<ufo_x \div 1000, ufo_y \div 1000>>, rng |-> jitter_x.rng]

\* lines 1025-1040: the elements of the ink pixels from the k-th on, in loop
\* order
RECURSIVE element_positions(_, _, _, _)
element_positions(bdf_font_, bdf_glyph, k, rng_) ==
    IF k > Len(InkSeq(bdf_glyph.bitmap)) THEN [elements |-> <<>>, rng |-> rng_]
    ELSE LET first == element_position(bdf_font_, bdf_glyph,
                                       InkSeq(bdf_glyph.bitmap)[k], rng_)
             rest == element_positions(bdf_font_, bdf_glyph, k + 1, first.rng)
         IN [elements |-> <<first.position>> \o rest.elements, rng |-> rest.rng]

(***************************************************************************)
(* MainSpec: one run of main (lines 1542-1582) on any command line of the   *)
(* model, with the generator in any state at the start of the process.      *)
(* The source font holds one glyph without decomposition.                   *)
(***************************************************************************)
AxisNames == { "ESIZ", "XESP", "EJIT", "WGHT" }

VariableAxesChoices ==
    {None} \cup
    { Given(items) :
        items \in SeqsUpTo({ Item(axis, 1, 0) : axis \in AxisNames \cup {""} },
                           MaxAxes) }

InstanceChoices ==
    { None,
      Given(<<[name |-> "Bold", location |-> <<>>]>>),
      Given(<<[name |-> "Bold", location |-> <<Item("ESIZ", 2, 5)>>]>>),
      Given(<<[name |-> "Bold", location |-> <<Item("WGHT", 2, 5)>>]>>) }

StaticAxesChoices ==
    { None, Given(<<Item("EJIT", 2, 0)>>), Given(<<Item("EJIT", 2, 30)>>),
      Given(<<Item("WGHT", 2, 5)>>), Given(<<Item("XESP", 2, 7)>>) }

\* the line height of the source font, in pixels (ascent - descent)
LineHeight == 8

SourceGlyphs ==
    Loaded({cpDotlessI},
           [c \in {cpDotlessI} |->
               <<[shape |-> <<2, 1>>, ink |-> Pixels(2, 1)], <<0 - 1, 0>>>>])

\* the same glyph with blank pixels between its ink
SparseGlyphs ==
    Loaded({cpDotlessI},
           [c \in {cpDotlessI} |->
               <<[shape |-> <<2, 2>>, ink |-> {<<0, 1>>, <<1, 0>>}], <<0 - 1, 0>>>>])

\* a font with a composite: U+00EF is its base at the top left and its mark
\* at the bottom right
CompositeGlyphs ==
    Loaded({cpIDieresis, cpDotlessI, cpCombDieresis},
           (cpIDieresis :> <<[shape |-> <<2, 2>>, ink |-> {<<0, 0>>, <<1, 1>>}],
                             <<0 - 1, 0>>>>) @@
           (cpDotlessI :> <<[shape |-> <<1, 1>>, ink |-> {<<0, 0>>}], <<0 - 1, 0>>>>) @@
           (cpCombDieresis :> <<[shape |-> <<1, 1>>, ink |-> {<<0, 0>>}], <<1, 0>>>>))

MainInit ==
    /\ config \in [variable_axes : VariableAxesChoices,
                    variable_instance : InstanceChoices,
                    static_axes : StaticAxesChoices,
                    random_seed : {0, 1},
                    glyph_offset_x : {0, 1},
                    glyph_offset_y : {0, 1},
                    units_per_em : {2048}]
    /\ rng \in [seed : {2, 3}, draws : {0}]
    /\ bdf = <<>>
    /\ pc = "main"
    /\ bdf_font \in { FontOf(SourceGlyphs), FontOf(SparseGlyphs),
                      FontOf(CompositeGlyphs) }
    /\ masters = <<>>
    /\ exit_status = "running"
    /\ output = <<>>
    /\ composed_name = ""
    /\ decomposition = <<>>
    /\ components = Classified("none")
    /\ pending = <<>>
    /\ ufo_font = EmptyMap
    /\ anchors = <<>>
    /\ log = <<>>
    /\ calls = <<>>

\* lines 1542-1548
ParseArgs ==
    /\ pc = "main"
    /\ IF ~config.variable_instance.given
       THEN /\ config' = [config EXCEPT !.variable_instance = Given(<<>>)]
            /\ pc' = "load"
            /\ UNCHANGED exit_status
       ELSE IF ~config.variable_axes.given
       THEN /\ exit_status' = "1"
            /\ pc' = "exit"
            /\ UNCHANGED config
       ELSE /\ pc' = "load"
            /\ UNCHANGED <<config, exit_status>>
    /\ UNCHANGED <<bdf_font, composed_name, decomposition, components, pending,
                   ufo_font, anchors, log, calls, masters, output, rng, bdf>>

\* line 1551: load_bdf, of which lines 602-637 set the fields main reads
LoadBdf ==
    /\ pc = "load"
    /\ LET loaded == load_axes(config)
       IN IF ~loaded.ok
          THEN /\ exit_status' = "1"
               /\ pc' = "exit"
               /\ UNCHANGED bdf_font
          ELSE /\ bdf_font' =
                     [variable_axes |-> loaded.variable_axes,
                      variable_instances |-> loaded.variable_instances,
                      location |-> loaded.location,
                      glyph_offset_x |-> config.glyph_offset_x,
                      glyph_offset_y |-> config.glyph_offset_y,
                      units_per_element_y |-> config.units_per_em \div LineHeight]
                     @@ bdf_font
               /\ pc' = "prepare"
               /\ UNCHANGED exit_status
    /\ UNCHANGED <<composed_name, decomposition, components, pending,
                   ufo_font, anchors, log, calls, config, masters, output, rng, bdf>>

\* lines 1553-1556: the folder is made, the masters are enumerated
PrepareFolder ==
    /\ pc = "prepare"
    /\ output' = Append(output, [kind |-> "folder", name |-> "", location |-> <<>>,
                            glyphs |-> EmptyMap])
    /\ masters' = get_masters(bdf_font)
    /\ pending' = [i \in 1 .. Len(get_masters(bdf_font)) |->
                     get_masters(bdf_font)[i].name]
    /\ pc' = "masters"
    /\ UNCHANGED <<bdf_font, composed_name, decomposition, components,
                   ufo_font, anchors, log, calls, config, exit_status, rng, bdf>>

\* a variant that leaves the location of the font as it is
at_master_ignored(location, master_location) == location

\* lines 1561-1562: the location of the master replaces that of the font
RECURSIVE at_master(_, _)
at_master(location, master_location) ==
    IF master_location = <<>> THEN location
    ELSE at_master(Put(location, master_location[1][1], master_location[1][2]),
                   Tail(master_location))

(***************************************************************************)
(* set_ufo_anchors (lines 1146-1188): the anchors appended to the output    *)
(* glyphs and the two maps the mark feature is written from.  A map is a    *)
(* sequence of <<key, names>> in the order the keys were first met.         *)
(***************************************************************************)
\* lines 1162-1167: the anchor of an output glyph, in font units
ufo_anchor(bdf_font_, anchor_name, anchor_offset) ==
    [name |-> anchor_name,
     x |-> ((anchor_offset[2] + bdf_font_.glyph_offset_x)
               * Get(bdf_font_.location, "XESP")
               * bdf_font_.units_per_element_y) \div 10,
     y |-> anchor_offset[1] * bdf_font_.units_per_element_y]

\* the list of the key is made when the key is new, then the name appended
append_to_class(map, key, component_name) ==
    Put(map, key,
        Append(IF key \in Keys(map) THEN Get(map, key) ELSE <<>>, component_name))

\* lines 1180-1183: the key of a base glyph is the tuple of its anchors in
\* the order of the dictionary
base_key(component_anchors) == component_anchors

\* lines 1159-1177: the loop over the anchors of one mark glyph, from the
\* k-th on
RECURSIVE add_mark_classes(_, _, _, _)
add_mark_classes(mark_map, component_name, component_anchors, k) ==
    IF k > Len(component_anchors) THEN mark_map
    ELSE add_mark_classes(
             append_to_class(mark_map, component_anchors[k], component_name),
             component_name, component_anchors, k + 1)

\* lines 1153-1188: the loop over the glyphs with anchors, from the k-th on
RECURSIVE set_ufo_anchors(_, _, _, _)
set_ufo_anchors(bdf_font_, anchors_, k, maps) ==
    IF k > Len(anchors_) THEN maps
    ELSE LET component_name == anchors_[k][1]
             component_anchors == anchors_[k][2]
             is_mark == bdf_font_.glyphs[component_name].codepoint
                           \in DOMAIN combining_infos
             appended == [i \in DOMAIN component_anchors |->
                             ufo_anchor(bdf_font_, component_anchors[i][1],
                                        component_anchors[i][2])]
         IN set_ufo_anchors(bdf_font_, anchors_, k + 1,
               [glyph_anchors |-> Put(maps.glyph_anchors, component_name, appended),
                mark_map |-> IF is_mark
                             THEN add_mark_classes(maps.mark_map, component_name,
                                                   component_anchors, 1)
                             ELSE maps.mark_map,
                base_map |-> IF is_mark THEN maps.base_map
                             ELSE append_to_class(maps.base_map,
                                                  base_key(component_anchors),
                                                  component_name)])

\* lines 1054-1058: the translation of a constituent, as <<x, y>> in font
\* units; units_per_element_x (line 653) is XESP * units_per_element_y
component_transformation(bdf_font_, delta) ==
    << (delta[2] * Get(bdf_font_.location, "XESP")
           * bdf_font_.units_per_element_y) \div 10,
       delta[1] * bdf_font_.units_per_element_y >>

\* line 1295: the glyphs in the order load_bdf stored them, here by
\* ascending codepoint
glyph_order(bdf_font_) ==
    [i \in 1 .. Cardinality(DOMAIN bdf_font_.codepoints) |->
        bdf_font_.codepoints[Ascending(DOMAIN bdf_font_.codepoints)[i]]]

\* lines 1293-1312: the glyph loop from the k-th glyph on.  "built" holds,
\* per output glyph, the names it refers to and where; the anchors; the
\* generator; the messages.
RECURSIVE add_ufo_glyphs(_, _, _, _)
add_ufo_glyphs(bdf_font_, names, k, built) ==
    IF k > Len(names) THEN built
    ELSE LET composed_glyph == bdf_font_.glyphs[names[k]]
             decomposed == decompose_bdf_glyph(bdf_font_, names[k])
             plain == Len(decomposed.components) = 0
             drawn == element_positions(bdf_font_, composed_glyph, 1, built.rng)
             placed == add_ufo_components(bdf_font_, decomposed.components)
             outcome == IF plain THEN Untouched(built.anchors)
                        ELSE add_anchors(built.anchors, bdf_font_,
                                         composed_glyph.codepoint,
                                         decomposed.components)
         IN add_ufo_glyphs(bdf_font_, names, k + 1,
               [glyphs |->
                   (names[k] :>
                       IF plain THEN drawn.elements
                       ELSE [i \in DOMAIN placed |->
                               component_transformation(bdf_font_,
                                                        placed[i].offset)])
                   @@ built.glyphs,
                references |->
                   (names[k] :>
                       IF plain THEN [i \in DOMAIN drawn.elements |-> "_"]
                       ELSE [i \in DOMAIN placed |-> placed[i].name])
                   @@ built.references,
                anchors |-> outcome.anchors,
                rng |-> IF plain THEN drawn.rng ELSE built.rng,
                log |-> built.log \o decomposed.messages
                           \o conflict_message(composed_glyph.codepoint, outcome)])

\* line 1293: the accumulators at the start of a build
NothingBuilt(rng_) ==
    [glyphs |-> EmptyMap, references |-> EmptyMap, anchors |-> <<>>,
     rng |-> rng_, log |-> <<>>]

\* lines 1556-1575: one master is built and written
BuildMaster ==
    /\ pc = "masters"
    /\ pending # <<>>
    /\ \E master \in {masters[Len(masters) - Len(pending) + 1]} :
       \E font \in {[bdf_font EXCEPT
                        !.location = at_master(@, master.location)]} :
       \E built \in {add_ufo_glyphs(font, glyph_order(font), 1,
                        NothingBuilt(random_seed(rng, config.random_seed)))} :
       \E features \in {set_ufo_anchors(font, built.anchors, 1,
                            [glyph_anchors |-> <<>>, mark_map |-> <<>>,
                             base_map |-> <<>>])} :
          /\ bdf_font' = font
          /\ ufo_font' = built.glyphs
          /\ anchors' = built.anchors
          /\ rng' = built.rng
          /\ log' = log \o built.log
          /\ output' = Append(output,
                          [kind |-> "ufo", name |-> master.name,
                           location |-> font.location,
                           glyphs |-> built.glyphs,
                           references |-> built.references,
                           anchors |-> features.glyph_anchors,
                           accumulated |-> built.anchors,
                           mark_map |-> features.mark_map,
                           base_map |-> features.base_map])
          /\ composed_name' = glyph_order(font)[Len(glyph_order(font))]
    /\ pending' = Tail(pending)
    /\ UNCHANGED <<pc, decomposition, components, calls,
                   config, masters, exit_status, bdf>>

\* lines 1577-1582
WriteDesignspace ==
    /\ pc = "masters"
    /\ pending = <<>>
    /\ output' = Append(output,
                    [kind |-> "designspace", name |-> "", location |-> <<>>,
                     glyphs |-> EmptyMap])
    /\ exit_status' = "0"
    /\ pc' = "done"
    /\ UNCHANGED <<bdf_font, composed_name, decomposition, components, pending,
                   ufo_font, anchors, log, calls, config, masters, rng, bdf>>

MainNext ==
    \/ ParseArgs
    \/ LoadBdf
    \/ PrepareFolder
    \/ BuildMaster
    \/ WriteDesignspace

MainSpec == MainInit /\ [][MainNext]_vars

(***************************************************************************)
(* What the claims about the masters speak of.                              *)
(***************************************************************************)
Enumerated == pc \in {"masters", "done"}

ActiveAxes == { bdf_font.variable_axes[i] : i \in 1 .. Len(bdf_font.variable_axes) }

\* the value an assignment of "min" or "max" gives an axis
CornerValue(axis, end) ==
    IF end = "min" THEN axes_info[axis].min ELSE axes_info[axis].max

(* C13: for N >= 0 active axes get_masters returns 2^N masters; each        *)
(* assigns every active axis, and nothing else, its minimum or its maximum; *)
(* no two masters have the same assignment or the same name, and every      *)
(* assignment occurs.                                                       *)
C13_Masters ==
    Enumerated =>
       /\ Len(masters) = 2 ^ Cardinality(ActiveAxes)
       /\ Len(bdf_font.variable_axes) = Cardinality(ActiveAxes)
       /\ \A i \in 1 .. Len(masters) :
             /\ DistinctKeys(masters[i].location)
             /\ Keys(masters[i].location) = ActiveAxes
             /\ \A axis \in ActiveAxes :
                   Get(masters[i].location, axis) \in
                      { axes_info[axis].min, axes_info[axis].max }
       /\ \A i, j \in 1 .. Len(masters) :
             i # j => /\ masters[i].location # masters[j].location
                      /\ masters[i].name # masters[j].name
       /\ \A corner \in [ActiveAxes -> {"min", "max"}] :
             \E i \in 1 .. Len(masters) :
                \A axis \in ActiveAxes :
                   Get(masters[i].location, axis) = CornerValue(axis, corner[axis])

C13_Witness ==
    /\ pc = "done"
    /\ bdf_font.variable_axes = <<"EJIT", "ESIZ">>
    /\ Len(masters) = 4
    /\ masters[1].name = "EJITminESIZmin"
    /\ masters[2].name = "EJITmaxESIZmin"
    /\ masters[4].name = "EJITmaxESIZmax"
    /\ Get(masters[3].location, "ESIZ") = 10
    /\ Get(masters[3].location, "EJIT") = 0

(***************************************************************************)
(* What the claims about the configuration errors speak of.                 *)
(***************************************************************************)
\* the items name an axis outside the registry
NamesUnknownAxis(items) ==
    \E i \in 1 .. Len(items) :
       items[i].axis # "" /\ items[i].axis \notin DOMAIN axes_info

\* the items declare an axis
DeclaresAxis(items) == \E i \in 1 .. Len(items) : items[i].axis # ""

\* a user-supplied axis specification names an unknown axis
UnknownAxisGiven ==
    \/ NamesUnknownAxis(config.variable_axes.items)
    \/ NamesUnknownAxis(config.static_axes.items)
    \/ \E i \in 1 .. Len(config.variable_instance.items) :
          NamesUnknownAxis(config.variable_instance.items[i].location)

\* an instance is requested and no variable axis is declared
InstanceWithoutAxes ==
    /\ config.variable_instance.items # <<>>
    /\ ~DeclaresAxis(config.variable_axes.items)

\* the run has ended with a non-zero status or is about to, and nothing has
\* been created or written
AbortsBeforeOutput ==
    /\ output = <<>>
    /\ pc \in {"main", "load", "exit"}
    /\ pc = "exit" => exit_status = "1"

(* C14: a run whose axis specifications name an axis outside the registry,  *)
(* or which requests an instance while no variable axis is declared (the    *)
(* axis list absent or empty), ends with a non-zero exit status before the  *)
(* output folder, a master or the designspace file is created.              *)
C14_FatalBeforeOutput ==
    (UnknownAxisGiven \/ InstanceWithoutAxes) => AbortsBeforeOutput

(***************************************************************************)
(* What the claims about the jitter speak of.                               *)
(***************************************************************************)
\* the masters written so far
Written == { i \in 1 .. Len(output) : output[i].kind = "ufo" }

\* the font as it was when the master of output[i] was built
FontAt(i) == [bdf_font EXCEPT !.location = output[i].location]

\* the glyph is rendered from its own bitmap (line 1305)
NotDecomposed(name) == decompose_bdf_glyph(bdf_font, name).components = <<>>

\* the positions the generator gives a glyph when its first draw is the
\* first draw after seeding with the configured seed
FromSeed(i, name) ==
    add_ufo_glyphs(FontAt(i), glyph_order(bdf_font), 1,
                   NothingBuilt([seed |-> config.random_seed,
                                 draws |-> 0])).glyphs[name]

\* the centre of a pixel, in font units, rounded down
PixelCentre(i, name, pixel) ==
    LET glyph == bdf_font.glyphs[name]
        units_y == bdf_font.units_per_element_y
    IN << ((2 * (bdf_font.glyph_offset_x + glyph.offset[2] + pixel[2]) + 1)
             * Get(output[i].location, "XESP") * units_y) \div 20,
          ((2 * (glyph.offset[1] + pixel[1]) + 1) * units_y) \div 2 >>

(* C15: the element positions of every glyph of every master are those     *)
(* given by the configured seed alone, whatever the generator held before   *)
(* and whichever masters were built before; and when the jitter axis is 0   *)
(* every element of a glyph rendered from its bitmap is at the centre of    *)
(* its pixel.                                                               *)
C15_JitterReproducible ==
    \A i \in Written :
       \A name \in DOMAIN output[i].glyphs :
          /\ output[i].glyphs[name] = FromSeed(i, name)
          /\ (Get(output[i].location, "EJIT") = 0 /\ NotDecomposed(name)) =>
                output[i].glyphs[name] =
                   [k \in 1 .. Len(InkSeq(bdf_font.glyphs[name].bitmap)) |->
                      PixelCentre(i, name, InkSeq(bdf_font.glyphs[name].bitmap)[k])]

\* two masters built with the same jitter, after one another, hold the same
\* displaced elements; a third one without jitter holds the pixel centres
C15_Witness ==
    /\ pc = "done"
    /\ Cardinality(Written) = 4
    /\ config.random_seed = 1
    /\ \E i, j, k \in Written :
          /\ i < j
          /\ Get(output[i].location, "EJIT") = 1
          /\ Get(output[j].location, "EJIT") = 1
          /\ output[i].glyphs["dotlessi"] = output[j].glyphs["dotlessi"]
          /\ Get(output[k].location, "EJIT") = 0
          /\ Get(output[k].location, "ESIZ") = Get(output[i].location, "ESIZ")
          /\ output[i].glyphs["dotlessi"][1] # output[k].glyphs["dotlessi"][1]
          /\ output[i].glyphs["dotlessi"][2] # output[k].glyphs["dotlessi"][2]

(***************************************************************************)
(* load_bdf, the glyph loop (lines 435-505).  A glyph of the source file is *)
(* [name, codepoint, bbH, bbW, bbY, bbX, data]: data holds one integer per  *)
(* row, whose bit bbW - x - 1 is pixel x.  The names of the model need no   *)
(* sanitizing, the codepoint subset admits every glyph and none is the      *)
(* .notdef glyph.                                                           *)
(***************************************************************************)
\* lines 458-462
build_bitmap(bdf_glyph) ==
    [shape |-> <<bdf_glyph.bbH, bdf_glyph.bbW>>,
     ink |-> { p \in Pixels(bdf_glyph.bbH, bdf_glyph.bbW) :
                 (bdf_glyph.data[p[1] + 1] \div (2 ^ (bdf_glyph.bbW - p[2] - 1))) % 2
                    = 1 }]

Least(S) == CHOOSE n \in S : \A m \in S : n <= m

Greatest(S) == CHOOSE n \in S : \A m \in S : n >= m

\* lines 465-474: the box to keep, as [y_min, x_min, y_max, x_max]
crop_box(bitmap) ==
    IF bitmap.ink # {}
    THEN [y_min |-> Least({ p[1] : p \in bitmap.ink }),
          x_min |-> Least({ p[2] : p \in bitmap.ink }),
          y_max |-> Greatest({ p[1] : p \in bitmap.ink }) + 1,
          x_max |-> Greatest({ p[2] : p \in bitmap.ink }) + 1]
    ELSE [y_min |-> 0, x_min |-> 0, y_max |-> 1, x_max |-> 1]

\* the length of the slice a:b of an axis of length n, for 0 <= a <= b
slice_length(a, b, n) ==
    LET stop == IF b < n THEN b ELSE n
    IN IF stop > a THEN stop - a ELSE 0

\* lines 476-477: bitmap[y_min:y_max, x_min:x_max]
slice(bitmap, box) ==
    LET rows == slice_length(box.y_min, box.y_max, bitmap.shape[1])
        columns == slice_length(box.x_min, box.x_max, bitmap.shape[2])
    IN [shape |-> <<rows, columns>>,
        ink |-> { subtract_offset(p, <<box.y_min, box.x_min>>) :
                    p \in { q \in bitmap.ink :
                              /\ q[1] >= box.y_min /\ q[1] < box.y_min + rows
                              /\ q[2] >= box.x_min /\ q[2] < box.x_min + columns } }]

\* lines 457-497: the glyph stored for a glyph of the source file
cropped_glyph(bdf_glyph) ==
    LET bitmap == build_bitmap(bdf_glyph)
        box == crop_box(bitmap)
    IN Glyph(bdf_glyph.codepoint, slice(bitmap, box),
             <<bdf_glyph.bbY + box.y_min, bdf_glyph.bbX + box.x_min>>)

(***************************************************************************)
(* LoadSpec: load_bdf reads a source file of one glyph, of any bounding box *)
(* within the bounds, empty ones included, and any rows.                    *)
(***************************************************************************)
SourceOrigins == { <<0 - 1, 0>>, <<0 - 1, 1>>, <<0, 0>>, <<0, 1>> }

SourceNames == (cpSpace :> "space") @@ (cpDotlessI :> "dotlessi")

LoadInit ==
    /\ \E codepoint \in DOMAIN SourceNames :
       \E bbH \in 0 .. MaxH :
       \E bbW \in 0 .. MaxW :
       \E origin \in SourceOrigins :
       \E data \in [1 .. bbH -> 0 .. (2 ^ bbW) - 1] :
          bdf = <<[name |-> SourceNames[codepoint], codepoint |-> codepoint,
                   bbH |-> bbH, bbW |-> bbW,
                   bbY |-> origin[1], bbX |-> origin[2], data |-> data]>>
    /\ bdf_font = FontOf(EmptyMap)
    /\ pc = "loading"
    /\ composed_name = ""
    /\ decomposition = <<>>
    /\ components = Classified("none")
    /\ pending = <<>>
    /\ ufo_font = EmptyMap
    /\ anchors = <<>>
    /\ log = <<>>
    /\ calls = <<>>
    /\ config = "None"
    /\ masters = <<>>
    /\ exit_status = "running"
    /\ output = <<>>
    /\ rng = [seed |-> 0, draws |-> 0]

\* one iteration of the loop of lines 435-505
LoadGlyph ==
    /\ pc = "loading"
    /\ bdf # <<>>
    /\ LET bdf_glyph == Head(bdf)
       IN /\ bdf_font' =
                [glyphs |-> (bdf_glyph.name :> cropped_glyph(bdf_glyph))
                               @@ bdf_font.glyphs,
                 codepoints |-> (bdf_glyph.codepoint :> bdf_glyph.name)
                                   @@ bdf_font.codepoints]
          /\ calls' = Append(calls, bdf_glyph)
    /\ bdf' = Tail(bdf)
    /\ UNCHANGED <<pc, composed_name, decomposition, components, pending,
                   ufo_font, anchors, log, config, masters, exit_status,
                   output, rng>>

LoadNext == LoadGlyph

LoadSpec == LoadInit /\ [][LoadNext]_vars

(***************************************************************************)
(* What the claims about the repository speak of.                           *)
(***************************************************************************)
\* the glyph of the source file a stored glyph was made from
SourceOf(name) == calls[CHOOSE i \in 1 .. Len(calls) : calls[i].name = name]

HasInkInRow(bitmap, y) == \E p \in bitmap.ink : p[1] = y

HasInkInColumn(bitmap, x) == \E p \in bitmap.ink : p[2] = x

\* no empty row or column at the border
Tight(bitmap) ==
    /\ HasInkInRow(bitmap, 0) /\ HasInkInRow(bitmap, bitmap.shape[1] - 1)
    /\ HasInkInColumn(bitmap, 0) /\ HasInkInColumn(bitmap, bitmap.shape[2] - 1)

\* the stored ink, seen from the origin of the source bounding box, is the
\* ink of the source
SameInkAsSource(name) ==
    LET source == SourceOf(name)
        glyph == bdf_font.glyphs[name]
    IN { add_offset(subtract_offset(glyph.offset, <<source.bbY, source.bbX>>), p) :
            p \in glyph.bitmap.ink } = build_bitmap(source).ink

(* C16: after load_bdf, a glyph with ink has ink in its first and last row  *)
(* and column and its offset is the source origin shifted by the rows and   *)
(* columns cropped away; a glyph without ink, a source glyph of zero width  *)
(* or height included, has a 1x1 bitmap holding a 0.                        *)
C16_Cropped ==
    \A name \in DOMAIN bdf_font.glyphs :
       LET glyph == bdf_font.glyphs[name]
       IN IF build_bitmap(SourceOf(name)).ink # {}
          THEN /\ Tight(glyph.bitmap)
               /\ SameInkAsSource(name)
               /\ glyph.bitmap.ink \subseteq
                     Pixels(glyph.bitmap.shape[1], glyph.bitmap.shape[2])
          ELSE glyph.bitmap = zeros(<<1, 1>>)

(***************************************************************************)
(* The classifications of the recursion, over the working bitmaps.          *)
(***************************************************************************)
\* the working bitmaps a search of the composite can hold: its shape, and a
\* part of its ink already painted
WorkingBitmaps ==
    { [shape |-> Composite.bitmap.shape, ink |-> painted] :
        painted \in SUBSET Composite.bitmap.ink }

NonRecoverable == {"missing", "uncomposable"}

\* the classifications get_bdf_components gives for the remaining
\* constituents over all working bitmaps
KindsOverBitmaps(remaining) ==
    { get_bdf_components(bdf_font, composed_name, remaining, bitmap).kind :
        bitmap \in WorkingBitmaps }

\* the result of the recursion (lines 933-936) at the first offset, in scan
\* order, where the glyph paints and the recursion is not a plain failure
FirstDecisive(component_name, bitmap) ==
    LET delta_size == subtract_offset(Composite.bitmap.shape,
                          bdf_font.glyphs[component_name].bitmap.shape)
        decisive == { i \in 0 .. offset_count(delta_size) - 1 :
            LET paint == paint_bdf_glyph(Composite.bitmap,
                             bdf_font.glyphs[component_name].bitmap,
                             nth_offset(delta_size, i), bitmap)
            IN /\ paint.ok
               /\ get_bdf_components(bdf_font, composed_name,
                      Tail(decomposition), paint.bitmap).kind # "mismatch" }
    IN IF decisive = {} THEN Classified("mismatch")
       ELSE LET i == CHOOSE j \in decisive : \A k \in decisive : j <= k
            IN get_bdf_components(bdf_font, composed_name, Tail(decomposition),
                   paint_bdf_glyph(Composite.bitmap,
                       bdf_font.glyphs[component_name].bitmap,
                       nth_offset(delta_size, i), bitmap).bitmap)

\* lines 938-939: a recursion that returns "missing" or "uncomposable" for
\* the directly resolved glyph ends the search with that classification
PropagatedAtOnce ==
    (/\ Searched
     /\ Len(decomposition) > 0
     /\ decomposition[1] \in DOMAIN bdf_font.codepoints)
    => LET inner == FirstDecisive(bdf_font.codepoints[decomposition[1]],
                                  zeros(Composite.bitmap.shape))
       IN inner.kind \in NonRecoverable => components = inner

\* a classification "missing" or "uncomposable" of the remaining
\* constituents is the same for every working bitmap
OffsetIndependent ==
    Searched =>
       LET kinds == KindsOverBitmaps(decomposition)
       IN kinds \cap NonRecoverable # {} => Cardinality(kinds) = 1

(* C17: a recursion that returns "missing" or "uncomposable" ends the       *)
(* search at once with that classification, and the recursion returns such  *)
(* a classification for one working bitmap only if it returns the same for  *)
(* every working bitmap of the same font, composite and constituent list.   *)
C17_Propagation == PropagatedAtOnce /\ OffsetIndependent

(***************************************************************************)
(* The offsets a successful search returns.                                 *)
(***************************************************************************)
\* the placement returned for the i-th constituent: get_bdf_components
\* returns the placements last constituent first
PlacedFor(i) == components.list[Len(components.list) - i + 1]

\* its offset inside the composite's bounding box, the (dy, dx) of the loops
ScanOffset(i) == subtract_offset(PlacedFor(i).offset, Composite.offset)

\* the ink painted by the placements of the constituents before the i-th
CoveredBefore(i) == UNION { PaintedInk(PlacedFor(j)) : j \in 1 .. i - 1 }

\* the glyph at offset o fits and the constituents after the i-th can
\* complete the composite exactly
AdmitsCompletion(i, name, o) ==
    /\ o \in InBounds(name)
    /\ ShiftedInk(name, o) \subseteq Composite.bitmap.ink
    /\ Reconstructs(SubSeq(decomposition, i + 1, Len(decomposition)),
                    CoveredBefore(i) \cup ShiftedInk(name, o))

FirstFit(i) ==
    /\ AdmitsCompletion(i, PlacedFor(i).name, ScanOffset(i))
    /\ \A o \in InBounds(PlacedFor(i).name) :
          RowMajorBefore(o, ScanOffset(i)) => ~AdmitsCompletion(i, PlacedFor(i).name, o)

DirectPreferred(i) ==
    LET c == decomposition[i]
    IN (c \in DOMAIN bdf_font.codepoints /\ PlacedFor(i).name # bdf_font.codepoints[c])
       => \A o \in InBounds(bdf_font.codepoints[c]) :
             ~AdmitsCompletion(i, bdf_font.codepoints[c], o)

\* the offset tuples that reconstruct the composite with the returned glyphs
SameGlyphReconstructions ==
    { os \in [1 .. Len(decomposition) -> (0 .. MaxH) \X (0 .. MaxW)] :
        /\ \A i \in DOMAIN os :
              /\ os[i] \in InBounds(PlacedFor(i).name)
              /\ ShiftedInk(PlacedFor(i).name, os[i]) \subseteq Composite.bitmap.ink
        /\ UNION { ShiftedInk(PlacedFor(i).name, os[i]) : i \in DOMAIN os }
              = Composite.bitmap.ink }

\* the returned offsets come first in the lexicographic order of the tuples
LexLeast(os) ==
    \/ \A i \in DOMAIN os : ScanOffset(i) = os[i]
    \/ \E i \in DOMAIN os :
          /\ \A j \in 1 .. i - 1 : ScanOffset(j) = os[j]
          /\ RowMajorBefore(ScanOffset(i), os[i])

(* C18: on success the offset returned for each constituent is the least,   *)
(* row by row and left to right, of the offsets of its glyph that admit an  *)
(* exact completion after the earlier choices; the returned offsets are the *)
(* lexicographically least of the reconstructions with the same glyphs; and *)
(* the spacing-modifier substitute is returned only when the constituent's  *)
(* own glyph admits no completion.                                          *)
C18_FirstFit ==
    Succeeded =>
       /\ \A i \in 1 .. Len(decomposition) : FirstFit(i) /\ DirectPreferred(i)
       /\ \A os \in SameGlyphReconstructions : LexLeast(os)

\* a success with two constituents where one of them has a second offset,
\* in a later row and an earlier column, that also admits a completion
C18_Witness ==
    /\ Succeeded
    /\ Len(decomposition) = 2
    /\ \E i \in 1 .. 2 : \E o \in InBounds(PlacedFor(i).name) :
          /\ RowMajorBefore(ScanOffset(i), o)
          /\ o[2] < ScanOffset(i)[2]
          /\ AdmitsCompletion(i, PlacedFor(i).name, o)

(***************************************************************************)
(* DecomposeSpec: one call of decompose_bdf_glyph on a glyph of any of the  *)
(* codepoints below, in a repository that may hold its constituents.        *)
(***************************************************************************)
DecomposeCodepoints ==
    { cpIDieresis, cpYi, cpLongS, cpDieresis, cpEnSpace, cpNoBreakSpace,
      cpSuperTwo, cpAGrave, cpDotlessI, cpUnencoded }

DecomposeConstituents == { cpCombDieresis, cpCombGrave }

OnePixelBitmaps == { b \in CroppedBitmaps : b.shape = <<1, 1>> }

DecomposeInit ==
    /\ \E c \in DecomposeCodepoints :
       \E own \in [{c} -> CroppedBitmaps \X GlyphOffsets] :
       \E have \in SUBSET (DecomposeConstituents \ {c}) :
       \E others \in [have -> OnePixelBitmaps \X {<<0, 0>>}] :
          /\ bdf_font = FontOf(Loaded({c}, own) @@ Loaded(have, others))
          /\ composed_name = NameOf[c]
    /\ decomposition = <<>>
    /\ pc = "ready"
    /\ components = Classified("none")
    /\ pending = <<>>
    /\ ufo_font = EmptyMap
    /\ anchors = <<>>
    /\ log = <<>>
    /\ calls = <<>>
    /\ NoRun

\* lines 957-1007
Decompose ==
    /\ pc = "ready"
    /\ LET decomposed == decompose_bdf_glyph(bdf_font, composed_name)
       IN /\ decomposition' = resolve_decomposition(
                 bdf_font.glyphs[composed_name].codepoint).decomposition
          /\ components' = IF decomposed.searches = <<>>
                           THEN Classified("none")
                           ELSE decomposed.searches[1].result
          /\ calls' = decomposed.searches
          /\ log' = decomposed.messages
    /\ pc' = "decomposed"
    /\ UNCHANGED <<bdf_font, composed_name, pending, ufo_font, anchors,
                   main_vars>>

DecomposeNext == Decompose

DecomposeSpec == DecomposeInit /\ [][DecomposeNext]_vars

(***************************************************************************)
(* What the claims about the resolution of a decomposition speak of.        *)
(***************************************************************************)
Decomposed == pc = "decomposed"

\* r is s without its spaces, in the order of s
IsWithoutSpaces(r, s) ==
    /\ \A i \in DOMAIN r : r[i] # cpSpace
    /\ \E f \in [DOMAIN r -> DOMAIN s] :
          /\ \A i \in DOMAIN r : r[i] = s[f[i]]
          /\ \A i, j \in DOMAIN r : i < j => f[i] < f[j]
          /\ \A k \in DOMAIN s : s[k] # cpSpace => \E i \in DOMAIN r : f[i] = k

\* the constituent list the string gives: the empty one for a tag other
\* than "<compat>"
IsResolutionOf(r, string) ==
    IF string.tag \in {"", "<compat>"} THEN IsWithoutSpaces(r, string.codepoints)
    ELSE r = <<>>

(* C19: the constituent list resolved for a glyph comes from the override   *)
(* table whenever the codepoint is in it (an empty override gives the empty *)
(* list whatever Unicode says), otherwise from Unicode; a leading           *)
(* "<compat>" is dropped, any other tag gives the empty list, a negative    *)
(* codepoint gives the empty list, and every U+0020 is removed with the     *)
(* order of the others kept.                                                *)
C19_Resolution ==
    Decomposed =>
       LET c == Composite.codepoint
       IN /\ c \in DOMAIN custom_decomposition
                => IsResolutionOf(decomposition, custom_decomposition[c])
          /\ (c \notin DOMAIN custom_decomposition /\ c >= 0)
                => IsResolutionOf(decomposition, unicodedata_decomposition(c))
          /\ c < 0 => decomposition = <<>>
          /\ \A search_ \in { calls[i] : i \in DOMAIN calls } :
                search_.decomposition = decomposition

\* the glyph of U+00A8 has been resolved: "<compat> 0020 0308" gave the list
\* holding U+0308 alone, and the search was made with it
C19_Witness ==
    /\ Decomposed
    /\ Composite.codepoint = cpDieresis
    /\ decomposition = <<cpCombDieresis>>
    /\ Len(calls) = 1

(***************************************************************************)
(* MarkSpec: the calls of add_anchors of one build for composites of two    *)
(* marks with different roles, U+0308 ("top") and U+0327 ("cedilla"), two   *)
(* composites for each mark, in any order and with the mark placed at any   *)
(* of the offsets of the model.                                             *)
(***************************************************************************)
MarkComposites == { cpIDieresis, cpYi, cpCCedilla, cpCapCCedilla }

MarkBases == { cpDotlessI, cpLatinC, cpCapC }

Marks == { cpCombDieresis, cpCombCedilla }

MarkInit ==
    /\ \E marks \in [Marks -> FullBitmaps \X GlyphOffsets] :
          bdf_font = FontOf(Loaded(MarkBases,
                                   [c \in MarkBases |-> <<zeros(<<1, 1>>), <<0, 0>>>>])
                            @@ Loaded(Marks, marks))
    /\ pending = MarkComposites
    /\ pc = "anchors"
    /\ composed_name = ""
    /\ decomposition = <<>>
    /\ components = Classified("none")
    /\ ufo_font = EmptyMap
    /\ anchors = <<>>
    /\ log = <<>>
    /\ calls = <<>>
    /\ NoRun

MarkNext ==
    \E codepoint \in MarkComposites :
    \E mark_at \in MarkPlacements :
       AddAnchorsCall(codepoint, <<0, 0>>, mark_at)

MarkSpec == MarkInit /\ [][MarkNext]_vars

(***************************************************************************)
(* What the claims about the anchors of the marks speak of.                 *)
(***************************************************************************)
\* the point the description gives a mark of the given size and role
MarkPoint(role, shape) ==
    IF role \in {"bottom", "cedilla", "ogonek"}
    THEN <<shape[1], shape[2] \div 2>>
    ELSE <<0, shape[2] \div 2>>

MarkGlyphs ==
    { name \in DOMAIN bdf_font.glyphs :
        bdf_font.glyphs[name].codepoint \in DOMAIN combining_infos }

RoleOfMark(name) == combining_infos[bdf_font.glyphs[name].codepoint].anchor

\* the anchor recorded for the mark, seen from the mark's own offset, is the
\* point of its role and size
RecordedAtMarkPoint(name) ==
    /\ Keys(Get(anchors, name)) = {RoleOfMark(name)}
    /\ subtract_offset(Get(Get(anchors, name), RoleOfMark(name)),
                       bdf_font.glyphs[name].offset)
          = MarkPoint(RoleOfMark(name), bdf_font.glyphs[name].bitmap.shape)

\* the call attached the base at the mark's point: the anchor it derived for
\* the base, taken back to where the mark was placed
UsedMarkPoint(call) ==
    LET combining == call.components[1]
        base == call.components[2]
    IN subtract_offset(
          add_offset(subtract_offset(call.derived,
                                     bdf_font.glyphs[base.name].offset),
                     base.offset),
          combining.offset)
       = MarkPoint(RoleOfMark(combining.name),
                   bdf_font.glyphs[combining.name].bitmap.shape)

(* C20: the anchor recorded for a mark of height H and width W, seen from   *)
(* the mark's own offset, is (0, W div 2), or (H, W div 2) for the roles    *)
(* "bottom", "cedilla" and "ogonek"; every composite that uses the mark,    *)
(* the first and the later ones, attaches at that point, so that the        *)
(* recorded anchor does not depend on the order of the composites.          *)
C20_MarkAnchor ==
    /\ \A name \in MarkGlyphs \cap Keys(anchors) : RecordedAtMarkPoint(name)
    /\ \A i \in DOMAIN calls : calls[i].engaged => UsedMarkPoint(calls[i])

\* both composites of the cedilla have been processed, the mark two rows
\* high and two columns wide: its anchor lies on the row below its bitmap
C20_Witness ==
    /\ { cpCCedilla, cpCapCCedilla } \cap pending = {}
    /\ { cpIDieresis, cpYi } \cap pending = {}
    /\ bdf_font.glyphs["uni0327"].bitmap.shape = <<2, 2>>
    /\ "uni0327" \in Keys(anchors)
    /\ subtract_offset(Get(Get(anchors, "uni0327"), "cedilla"),
                       bdf_font.glyphs["uni0327"].offset) = <<2, 1>>
    /\ \A i \in DOMAIN calls : calls[i].engaged

(***************************************************************************)
(* What the claims about the anchor of the base speak of.                   *)
(***************************************************************************)
\* the call is the first to record the role of its mark on its base glyph
FirstOnBase(i) ==
    /\ calls[i].engaged
    /\ \A k \in 1 .. i - 1 :
          calls[k].engaged =>
             \/ BaseOf(calls[k]).name # BaseOf(calls[i]).name
             \/ RoleOf(calls[k]) # RoleOf(calls[i])

RecordedAnchor(name, role) == Get(Get(anchors, name), role)

\* the anchor recorded on the base is the mark's point, carried from where
\* the mark was placed to the coordinates of the base glyph
DerivedFromPlacements(call) ==
    LET mark == MarkOf(call)
        base == BaseOf(call)
    IN RecordedAnchor(base.name, RoleOf(call)) =
          add_offset(
             subtract_offset(
                add_offset(mark.offset,
                           MarkPoint(RoleOf(call),
                                     bdf_font.glyphs[mark.name].bitmap.shape)),
                base.offset),
             bdf_font.glyphs[base.name].offset)

\* moving the mark glyph so that its anchor meets the anchor of the base
\* puts it where the composite has it
ShiftRestoresPlacement(call) ==
    subtract_offset(RecordedAnchor(BaseOf(call).name, RoleOf(call)),
                    RecordedAnchor(MarkOf(call).name, RoleOf(call)))
       = RelativePlacement(call)

(* C21: for the first composite that records a role on a base glyph, the    *)
(* recorded base anchor is mark placement + mark point - base placement +   *)
(* base glyph offset, and the difference of the recorded base and mark      *)
(* anchors is (mark placement - mark glyph offset) - (base placement - base *)
(* glyph offset).                                                           *)
C21_RoundTrip ==
    \A i \in DOMAIN calls :
       FirstOnBase(i) =>
          DerivedFromPlacements(calls[i]) /\ ShiftRestoresPlacement(calls[i])

\* a first composite with the base placed away from the origin of the
\* composite, the mark too, on glyphs with offsets of their own, after which
\* another composite of the same base and role was processed
C21_Witness ==
    \E i \in DOMAIN calls :
       /\ FirstOnBase(i)
       /\ BaseOf(calls[i]).offset = <<1, 0>>
       /\ MarkOf(calls[i]).offset = <<0, 0>>
       /\ bdf_font.glyphs[BaseOf(calls[i]).name].offset # <<0, 0>>
       /\ bdf_font.glyphs[MarkOf(calls[i]).name].bitmap.shape = <<2, 2>>
       /\ \E j \in DOMAIN calls :
             /\ i < j /\ calls[j].engaged
             /\ BaseOf(calls[j]).name = BaseOf(calls[i]).name
             /\ RoleOf(calls[j]) = RoleOf(calls[i])
             /\ calls[j].derived # calls[i].derived

(***************************************************************************)
(* ClassSpec: the calls of add_anchors of one build for four composites of  *)
(* two bases (e and E) and three marks (U+0300 and U+0308, "top"; U+0327,   *)
(* "cedilla"), in any order, then set_ufo_anchors (line 1314).              *)
(***************************************************************************)
ClassComposites == { cpEGrave, cpECedilla, cpCapEDieresis, cpCapECedilla }

ClassBases == { cpLatinE, cpCapE }

ClassMarks == { cpCombGrave, cpCombDieresis, cpCombCedilla }

UnitsPerElement == 256

ClassInit ==
    /\ \E marks \in [ClassMarks ->
                       { b \in FullBitmaps : b.shape[1] = 1 } \X {<<0, 0>>}] :
          bdf_font =
             [location |-> default_location(Len(AxesOrder)),
              glyph_offset_x |-> 0,
              units_per_element_y |-> UnitsPerElement]
             @@ FontOf(Loaded(ClassBases,
                              [c \in ClassBases |-> <<zeros(<<1, 1>>), <<0, 0>>>>])
                       @@ Loaded(ClassMarks, marks))
    /\ pending = ClassComposites
    /\ pc = "anchors"
    /\ composed_name = ""
    /\ decomposition = <<>>
    /\ components = Classified("none")
    /\ ufo_font = EmptyMap
    /\ anchors = <<>>
    /\ log = <<>>
    /\ calls = <<>>
    /\ NoRun

\* line 1314, after the glyph loop
SetUfoAnchors ==
    /\ pc = "anchors"
    /\ pending = {}
    /\ output' = <<[kind |-> "features"] @@
                   set_ufo_anchors(bdf_font, anchors, 1,
                       [glyph_anchors |-> <<>>, mark_map |-> <<>>,
                        base_map |-> <<>>])>>
    /\ pc' = "features"
    /\ UNCHANGED <<bdf_font, composed_name, decomposition, components, pending,
                   ufo_font, anchors, log, calls, config, masters, exit_status,
                   rng, bdf>>

ClassNext ==
    \/ \E codepoint \in ClassComposites :
       \E mark_at \in MarkPlacements :
          AddAnchorsCall(codepoint, <<0, 0>>, mark_at)
    \/ SetUfoAnchors

ClassSpec == ClassInit /\ [][ClassNext]_vars

(***************************************************************************)
(* What the claims about the classes speak of.                              *)
(***************************************************************************)
Featured == pc = "features"

WithAnchors == Keys(anchors)

\* the <<role, position>> pairs recorded for a glyph
PairsOf(name) == { Get(anchors, name)[i] : i \in DOMAIN Get(anchors, name) }

ClassesOf(map, name) ==
    { i \in DOMAIN map : \E j \in DOMAIN map[i][2] : map[i][2][j] = name }

SameClass(map, a, b) == ClassesOf(map, a) \cap ClassesOf(map, b) # {}

(* C22: after set_ufo_anchors two mark glyphs are in the same mark class    *)
(* exactly when they have the same (role, position) pair, two base glyphs   *)
(* are in the same base class exactly when their sets of (role, position)   *)
(* pairs are equal, in whatever order the roles were recorded, and every    *)
(* glyph with anchors is in a class of its kind.                            *)
C22_Classes ==
    Featured =>
       LET marks == WithAnchors \cap MarkGlyphs
           bases == WithAnchors \ MarkGlyphs
       IN /\ \A a, b \in marks :
                SameClass(output[1].mark_map, a, b)
                   <=> PairsOf(a) \cap PairsOf(b) # {}
          /\ \A a, b \in bases :
                SameClass(output[1].base_map, a, b) <=> PairsOf(a) = PairsOf(b)
          /\ \A a \in marks : ClassesOf(output[1].mark_map, a) # {}
          /\ \A a \in bases : ClassesOf(output[1].base_map, a) # {}

(***************************************************************************)
(* What the claims about the geometry of the output speak of.               *)
(***************************************************************************)
\* the centre of the pixel, moved by the glyph offset of the command line
\* (in pixels) on both coordinates, in font units, rounded down
OffsetPixelCentre(i, name, pixel) ==
    LET glyph == bdf_font.glyphs[name]
        units_y == bdf_font.units_per_element_y
    IN << ((2 * (bdf_font.glyph_offset_x + glyph.offset[2] + pixel[2]) + 1)
             * Get(output[i].location, "XESP") * units_y) \div 20,
          ((2 * (bdf_font.glyph_offset_y + glyph.offset[1] + pixel[1]) + 1)
             * units_y) \div 2 >>

(* C23: with jitter 0 a glyph rendered from its bitmap holds one element    *)
(* per ink pixel and none for a blank pixel, each at the centre of its      *)
(* pixel, floor((row + 1/2) * vertical unit) and floor((column + 1/2) *     *)
(* horizontal unit) with horizontal unit = vertical unit * XESP, the        *)
(* configured glyph offset added on the horizontal and on the vertical      *)
(* coordinate.                                                              *)
C23_PixelCentres ==
    \A i \in Written :
       Get(output[i].location, "EJIT") = 0 =>
          \A name \in { n \in DOMAIN output[i].glyphs : NotDecomposed(n) } :
             LET ink == InkSeq(bdf_font.glyphs[name].bitmap)
             IN /\ Len(output[i].glyphs[name]) = Len(ink)
                /\ \A k \in 1 .. Len(ink) :
                      /\ output[i].references[name][k] = "_"
                      /\ output[i].glyphs[name][k] = OffsetPixelCentre(i, name, ink[k])

\* the placements the search returned for the glyph
PlacementsOf(name) == decompose_bdf_glyph(bdf_font, name).components

\* the pixel, in the coordinates of the source font, that holds a point
\* given in the font units of master i
PixelAt(i, point) ==
    << point[2] \div bdf_font.units_per_element_y,
       (point[1] * 10) \div (Get(output[i].location, "XESP")
                               * bdf_font.units_per_element_y)
          - bdf_font.glyph_offset_x >>

\* the pixels on which the k-th reference of the glyph puts the elements of
\* the glyph it refers to
LandingPixels(i, name, k) ==
    LET referred == output[i].references[name][k]
    IN { PixelAt(i, add_offset(output[i].glyphs[referred][m],
                               output[i].glyphs[name][k])) :
           m \in DOMAIN output[i].glyphs[referred] }

\* the translation the description gives the placement, as <<x, y>>
ScaledDelta(i, placement) ==
    LET delta == subtract_offset(placement.offset,
                                 bdf_font.glyphs[placement.name].offset)
    IN << (delta[2] * Get(output[i].location, "XESP")
              * bdf_font.units_per_element_y) \div 10,
          delta[1] * bdf_font.units_per_element_y >>

(* C24: a decomposed glyph holds one reference per placement, to the placed *)
(* glyph, translated by (placement offset - own offset of that glyph) in    *)
(* font units, and no element; without jitter the elements of the glyphs it *)
(* refers to land on the pixels of the placements, which together are the   *)
(* ink pixels of the composite.                                             *)
C24_Components ==
    \A i \in Written :
       \A name \in { n \in DOMAIN output[i].glyphs : ~NotDecomposed(n) } :
          LET list == PlacementsOf(name)
              refs == output[i].references[name]
          IN /\ Len(refs) = Len(list)
             /\ \A k \in DOMAIN list :
                   /\ refs[k] = list[k].name /\ refs[k] # "_"
                   /\ output[i].glyphs[name][k] = ScaledDelta(i, list[k])
                   /\ (Get(output[i].location, "EJIT") = 0
                       /\ NotDecomposed(list[k].name)) =>
                         LandingPixels(i, name, k) =
                            { add_offset(list[k].offset, p) :
                                p \in bdf_font.glyphs[list[k].name].bitmap.ink }
             /\ UNION { { add_offset(list[k].offset, p) :
                            p \in bdf_font.glyphs[list[k].name].bitmap.ink } :
                        k \in DOMAIN list }
                   = { add_offset(bdf_font.glyphs[name].offset, p) :
                         p \in bdf_font.glyphs[name].bitmap.ink }

\* a master without jitter, with a fractional horizontal unit and a glyph
\* offset, holds U+00EF as its mark moved up and to the right and its base
\* where it is
C24_Witness ==
    \E i \in Written :
       /\ Get(output[i].location, "EJIT") = 0
       /\ Get(output[i].location, "XESP") = 7
       /\ bdf_font.glyph_offset_x = 1
       /\ "idieresis" \in DOMAIN output[i].glyphs
       /\ output[i].references["idieresis"] = <<"uni0308", "dotlessi">>
       /\ output[i].glyphs["idieresis"] = <<<<179, 0 - 256>>, <<0, 0>>>>

(***************************************************************************)
(* set_ufo_info (lines 681-689): the vertical metrics of the output font.   *)
(***************************************************************************)
\* int(n / d) for d > 0: the quotient with its fraction dropped, towards 0
int_of_quotient(n, d) ==
    IF n >= 0 THEN n \div d ELSE 0 - ((0 - n) \div d)

\* a variant that leaves the line at the bottom of the em square
set_ufo_info_uncentred(bdf_font_) ==
    [unitsPerEm |-> bdf_font_.units_per_em,
     descender |-> bdf_font_.descent * bdf_font_.units_per_element_y,
     ascender |-> bdf_font_.units_per_em
                     + bdf_font_.descent * bdf_font_.units_per_element_y,
     line_ascender |-> bdf_font_.ascent * bdf_font_.units_per_element_y,
     line_descender |-> bdf_font_.descent * bdf_font_.units_per_element_y]

set_ufo_info(bdf_font_) ==
    LET line_ascender == bdf_font_.ascent * bdf_font_.units_per_element_y
        line_descender == bdf_font_.descent * bdf_font_.units_per_element_y
        line_height == line_ascender - line_descender
        em_descender == line_descender
                           - int_of_quotient(bdf_font_.units_per_em - line_height, 2)
        em_ascender == bdf_font_.units_per_em + em_descender
    IN [unitsPerEm |-> bdf_font_.units_per_em,
        descender |-> em_descender,
        ascender |-> em_ascender,
        line_ascender |-> line_ascender,
        line_descender |-> line_descender]

(***************************************************************************)
(* InfoSpec: set_ufo_info on a font as load_bdf leaves it (lines 565-568,   *)
(* 605, 636-637), for any ascent above the descent and any units per em     *)
(* within the bounds.                                                       *)
(***************************************************************************)
InfoInit ==
    /\ \E ascent \in (0 - MaxAscent) .. MaxAscent :
       \E descent \in (0 - MaxAscent) .. MaxAscent :
       \E units_per_em \in 1 .. MaxEm :
          /\ ascent > descent
          /\ bdf_font = [ascent |-> ascent, descent |-> descent,
                         units_per_em |-> units_per_em,
                         units_per_element_y |->
                            int_of_quotient(units_per_em, ascent - descent)]
    /\ pc = "font"
    /\ composed_name = ""
    /\ decomposition = <<>>
    /\ components = Classified("none")
    /\ pending = <<>>
    /\ ufo_font = EmptyMap
    /\ anchors = <<>>
    /\ log = <<>>
    /\ calls = <<>>
    /\ NoRun

SetUfoInfo ==
    /\ pc = "font"
    /\ output' = <<set_ufo_info(bdf_font)>>
    /\ pc' = "info"
    /\ UNCHANGED <<bdf_font, composed_name, decomposition, components, pending,
                   ufo_font, anchors, log, calls, config, masters, exit_status,
                   rng, bdf>>

InfoNext == SetUfoInfo

InfoSpec == InfoInit /\ [][InfoNext]_vars

(* C25: with unit = floor(unitsPerEm / (ascent - descent)) and lineHeight = *)
(* (ascent - descent) * unit, set_ufo_info gives descender = descent * unit *)
(* - floor((unitsPerEm - lineHeight) / 2) and ascender = unitsPerEm +       *)
(* descender, so that ascender - descender = unitsPerEm and lineHeight <=   *)
(* unitsPerEm: the truncations of the code are the floors of the formula.   *)
C25_EmSquare ==
    pc = "info" =>
       LET unit == bdf_font.units_per_em \div (bdf_font.ascent - bdf_font.descent)
           lineHeight == (bdf_font.ascent - bdf_font.descent) * unit
       IN /\ bdf_font.units_per_element_y = unit
          /\ output[1].descender =
                bdf_font.descent * unit
                   - ((bdf_font.units_per_em - lineHeight) \div 2)
          /\ output[1].ascender = bdf_font.units_per_em + output[1].descender
          /\ output[1].ascender - output[1].descender = bdf_font.units_per_em
          /\ lineHeight <= bdf_font.units_per_em
          /\ output[1].line_ascender - output[1].line_descender = lineHeight

\* a line of five pixels, two of them below the baseline, in an em of 23
\* units: the unit is 4 and the three units left over are split 1 and 2
C25_Witness ==
    /\ pc = "info"
    /\ bdf_font.ascent = 3 /\ bdf_font.descent = 0 - 2
    /\ bdf_font.units_per_em = 23
    /\ output[1].descender = 0 - 9
    /\ output[1].ascender = 14

(***************************************************************************)
(* get_bdf_components with its arrays as objects.  The heap is the sequence *)
(* of the arrays the search holds: heap[1] is the bitmap of the composite,  *)
(* heap[2] the working bitmap of the outermost call (lines 886-887), the    *)
(* others the copies of line 925.  A working bitmap is passed by reference, *)
(* its index in the heap.  The trace records, for every call, the working   *)
(* bitmap it was given as it was on entry and as it is on return, and for   *)
(* every offset tried the copy as it was made and as paint_bdf_glyph left   *)
(* it; "ref" names the working bitmap of the call, which no other call      *)
(* shares, "decomposition" is the list the call was given and "name" the    *)
(* glyph that was painted.                                                  *)
(***************************************************************************)
\* a variant that hands out the array itself
bitmap_copy_alias(heap, ref) == [heap |-> heap, ref |-> ref]

\* line 925: a new array with the contents of the old one
bitmap_copy(heap, ref) == [heap |-> Append(heap, heap[ref]), ref |-> Len(heap) + 1]

Visit(ref, decomposition_, entry, exit) ==
    [kind |-> "call", ref |-> ref, decomposition |-> decomposition_,
     before |-> entry, after |-> exit]

Attempt(ref, component_name, entry, start, painted, ok) ==
    [kind |-> "attempt", ref |-> ref, name |-> component_name,
     before |-> entry, after |-> start, painted |-> painted, ok |-> ok]

RECURSIVE get_bdf_components_on_heap(_, _, _, _, _)
RECURSIVE scan_offsets_on_heap(_, _, _, _, _, _, _)

\* lines 916-948, from the i-th offset on; "run" is [heap, trace]
scan_offsets_on_heap(bdf_font_, composed, decomposition_, run, ref, component_name, i) ==
    LET composed_glyph == bdf_font_.glyphs[composed]
        component_glyph == bdf_font_.glyphs[component_name]
        delta_size == subtract_offset(composed_glyph.bitmap.shape,
                                      component_glyph.bitmap.shape)
    IN IF i >= offset_count(delta_size)
       THEN [result |-> Classified("none"), run |-> run]
       ELSE LET offset == nth_offset(delta_size, i)
                copied == bitmap_copy(run.heap, ref)
                paint == paint_bdf_glyph(copied.heap[1], component_glyph.bitmap,
                                         offset, copied.heap[copied.ref])
                painted == [heap |-> [copied.heap EXCEPT ![copied.ref] =
                                         paint.bitmap],
                            trace |-> Append(run.trace,
                                         Attempt(ref, component_name, run.heap[ref],
                                                 copied.heap[copied.ref],
                                                 paint.bitmap, paint.ok))]
            IN IF ~paint.ok
               THEN scan_offsets_on_heap(bdf_font_, composed, decomposition_,
                                         painted, ref, component_name, i + 1)
               ELSE LET inner == get_bdf_components_on_heap(bdf_font_, composed,
                                     Tail(decomposition_), painted, copied.ref)
                        here == after_recursion(inner.result, component_name,
                                                composed_glyph, offset)
                    IN IF here.kind # "none"
                       THEN [result |-> here, run |-> inner.run]
                       ELSE scan_offsets_on_heap(bdf_font_, composed,
                                decomposition_, inner.run, ref,
                                component_name, i + 1)

\* lines 882-954 for the working bitmap heap[ref]
get_bdf_components_on_heap(bdf_font_, composed, decomposition_, run, ref) ==
    LET composed_glyph == [bdf_font_.glyphs[composed] EXCEPT
                              !.bitmap = run.heap[1]]
        entry == run.heap[ref]
        Returned(result, run_) ==
            [result |-> result,
             run |-> [run_ EXCEPT
                        !.trace = Append(@, Visit(ref, decomposition_, entry,
                                                run_.heap[ref]))]]
    IN IF Len(decomposition_) = 0
       THEN Returned(exhausted_result(composed_glyph, run.heap[ref]), run)
       ELSE LET component_codepoint == decomposition_[1]
                first == IF component_codepoint \in DOMAIN bdf_font_.codepoints
                         THEN scan_offsets_on_heap(bdf_font_, composed,
                                  decomposition_, run, ref,
                                  bdf_font_.codepoints[component_codepoint], 0)
                         ELSE [result |-> Classified("none"), run |-> run]
            IN IF first.result.kind # "none"
               THEN Returned(first.result, first.run)
               ELSE LET s2 == stage2(bdf_font_, composed_glyph, component_codepoint)
                    IN IF s2.kind = "break"
                       THEN Returned(unmatched_result(bdf_font_,
                                                      component_codepoint),
                                     first.run)
                       ELSE IF s2.kind # "use"
                       THEN Returned(Classified(s2.kind), first.run)
                       ELSE LET second == scan_offsets_on_heap(bdf_font_,
                                              composed, decomposition_,
                                              first.run, ref,
                                              bdf_font_.codepoints[s2.codepoint], 0)
                            IN IF second.result.kind # "none"
                               THEN Returned(second.result, second.run)
                               ELSE Returned(unmatched_result(bdf_font_,
                                                              s2.codepoint),
                                             second.run)

\* the call of decompose_bdf_glyph (lines 979-982), and at the end of the
\* trace the bitmap of the composite as it was and as the search left it
search_on_heap(bdf_font_, composed, decomposition_) ==
    LET composed_bitmap == bdf_font_.glyphs[composed].bitmap
        done == get_bdf_components_on_heap(bdf_font_, composed, decomposition_,
                    [heap |-> <<composed_bitmap, zeros(composed_bitmap.shape)>>,
                     trace |-> <<>>], 2)
    IN [result |-> done.result,
        trace |-> Append(done.run.trace,
                         [kind |-> "composite", before |-> composed_bitmap,
                          after |-> done.run.heap[1]])]

(***************************************************************************)
(* HeapSpec: one search, as in SearchSpec, with the arrays as objects.      *)
(***************************************************************************)
HeapInit ==
    /\ \E c \in SearchComposites :
       \E own \in [{c} -> CroppedBitmaps \X {<<0, 0>>}] :
       \E have \in SUBSET ({cpDotlessI, cpCombDieresis, cpDieresis} \ {c}) :
       \E others \in [have -> CroppedBitmaps \X {<<0, 0>>}] :
          /\ bdf_font = FontOf(Loaded({c}, own) @@ Loaded(have, others))
          /\ composed_name = NameOf[c]
    /\ decomposition \in SeqsUpTo(SearchConstituents, MaxLen)
    /\ pc = "ready"
    /\ components = Classified("none")
    /\ pending = <<>>
    /\ ufo_font = EmptyMap
    /\ anchors = <<>>
    /\ log = <<>>
    /\ calls = <<>>
    /\ NoRun

SearchOnHeap ==
    /\ pc = "ready"
    /\ LET done == search_on_heap(bdf_font, composed_name, decomposition)
       IN /\ components' = done.result
          /\ calls' = done.trace
    /\ pc' = "searched"
    /\ UNCHANGED <<bdf_font, composed_name, decomposition, pending, ufo_font,
                   anchors, log, main_vars>>

HeapNext == SearchOnHeap

HeapSpec == HeapInit /\ [][HeapNext]_vars

(* C26: a call of get_bdf_components, at any depth, returns with the        *)
(* working bitmap it was given as it was on entry, and the search leaves    *)
(* the bitmap of the composite as it was; every offset is tried on the      *)
(* working bitmap as the call was given it, whatever the paints at the      *)
(* offsets before covered.                                                  *)
C26_ReadOnly ==
    Searched =>
       \A k \in DOMAIN calls : calls[k].after = calls[k].before

\* a search two constituents deep in which a paint stopped after covering a
\* pixel and another offset was tried after it
C26_Witness ==
    /\ Searched
    /\ \E k \in DOMAIN calls :
          /\ calls[k].kind = "attempt"
          /\ ~calls[k].ok
          /\ calls[k].painted # calls[k].after
          /\ \E j \in DOMAIN calls : j > k /\ calls[j].kind = "attempt"
    /\ \E k \in DOMAIN calls :
          calls[k].kind = "call" /\ calls[k].before.ink # {}

\* the calls of get_bdf_components of the search, and the offsets that the
\* call with working bitmap ref tried with the glyph of a name
VisitsOf == { k \in DOMAIN calls : calls[k].kind = "call" }

AttemptsOf(ref, name) ==
    { k \in DOMAIN calls : /\ calls[k].kind = "attempt"
                           /\ calls[k].ref = ref
                           /\ calls[k].name = name }

AttemptsIn(ref) ==
    { k \in DOMAIN calls : calls[k].kind = "attempt" /\ calls[k].ref = ref }

\* (Hc - Hk + 1) * (Wc - Wk + 1) for the glyph of a codepoint, nothing when
\* the glyph is higher or wider than the composite
OffsetsFor(codepoint) ==
    LET composite_shape == Composite.bitmap.shape
        shape == bdf_font.glyphs[bdf_font.codepoints[codepoint]].bitmap.shape
    IN IF shape[1] > composite_shape[1] \/ shape[2] > composite_shape[2] THEN 0
       ELSE (composite_shape[1] - shape[1] + 1)
            * (composite_shape[2] - shape[2] + 1)

IsSuffix(tail, list) ==
    /\ Len(tail) <= Len(list)
    /\ tail = SubSeq(list, Len(list) - Len(tail) + 1, Len(list))

FourResults == {"list", "missing", "mismatch", "uncomposable"}

\* the search ended with one of the four results, and the call at depth d
\* was given the list without its first d constituents
EndsWithin ==
    /\ components.kind \in FourResults
    /\ \A k \in VisitsOf : IsSuffix(calls[k].decomposition, decomposition)

Encoded(codepoint) == codepoint \in DOMAIN bdf_font.codepoints

ModifierOf(codepoint) == combining_infos[codepoint].modifier[1]

HasModifierGlyph(codepoint) ==
    /\ codepoint \in DOMAIN combining_infos
    /\ Len(combining_infos[codepoint].modifier) > 0
    /\ Encoded(ModifierOf(codepoint))

(* C27 as stated: the search ends with one of the four results at a depth   *)
(* of at most the number of constituents, and a call tries at most          *)
(* 2 * (Hc-Hk+1) * (Wc-Wk+1) offsets, Hk x Wk the size of the glyph of its  *)
(* first constituent.                                                       *)
C27_AsStated ==
    Searched =>
       /\ EndsWithin
       /\ \A k \in VisitsOf :
             LET left == calls[k].decomposition
             IN (Len(left) > 0 /\ Encoded(left[1])) =>
                   Cardinality(AttemptsIn(calls[k].ref))
                      <= 2 * OffsetsFor(left[1])

(* C27: the search ends with one of the four results; the call at depth d   *)
(* holds the list without its first d constituents, so that the depth is    *)
(* at most their number; and a call tries at most (Hc-Hk+1) * (Wc-Wk+1)     *)
(* offsets with the glyph of its first constituent and at most              *)
(* (Hc-Hm+1) * (Wc-Wm+1) with the glyph of its spacing modifier, Hm x Wm    *)
(* the size of that glyph, and no others.                                   *)
C27_Termination ==
    Searched =>
       /\ EndsWithin
       /\ \A k \in VisitsOf :
             LET left == calls[k].decomposition
                 ref == calls[k].ref
                 own == IF Len(left) > 0 /\ Encoded(left[1])
                        THEN {bdf_font.codepoints[left[1]]} ELSE {}
                 modifier == IF Len(left) > 0 /\ HasModifierGlyph(left[1])
                             THEN {bdf_font.codepoints[ModifierOf(left[1])]}
                             ELSE {}
             IN /\ \A a \in AttemptsIn(ref) : calls[a].name \in own \cup modifier
                /\ \A name \in own :
                      Cardinality(AttemptsOf(ref, name)) <= OffsetsFor(left[1])
                /\ \A name \in modifier :
                      Cardinality(AttemptsOf(ref, name))
                         <= OffsetsFor(ModifierOf(left[1]))

\* a search two constituents deep in which a call tried every offset of
\* both stages, and one whose constituent is larger than the composite
C27_Witness ==
    /\ Searched
    /\ Len(decomposition) = MaxLen
    /\ \E k \in VisitsOf : calls[k].decomposition = <<>>
    /\ \E k \in VisitsOf :
          LET left == calls[k].decomposition
          IN /\ Len(left) > 0 /\ Encoded(left[1]) /\ HasModifierGlyph(left[1])
             /\ OffsetsFor(left[1]) > 1
             /\ Cardinality(AttemptsIn(calls[k].ref))
                   = OffsetsFor(left[1]) + OffsetsFor(ModifierOf(left[1]))

\* the master that output[i] was built for: the masters are built in the
\* order of get_masters
MasterOf(i) == masters[Cardinality({ k \in Written : k <= i })]

\* the value the command line gives an axis that no master assigns: the
\* last assignment of --static-axes, the default of the axis without one
StaticOrDefault(axis) ==
    LET items == config.static_axes.items
        given == { k \in DOMAIN items :
                      items[k].axis = axis /\ items[k].parts \in {1, 2} }
        last == CHOOSE k \in given : \A other \in given : other <= k
    IN IF given = {} THEN axes_info[axis].default
       ELSE IF items[last].parts = 1 THEN 0 ELSE items[last].value

\* the names a glyph refers to by the rule of lines 1303-1309
ReferencesByRule(name) ==
    IF NotDecomposed(name)
    THEN [k \in 1 .. Cardinality(bdf_font.glyphs[name].bitmap.ink) |-> "_"]
    ELSE [k \in DOMAIN PlacementsOf(name) |-> PlacementsOf(name)[k].name]

\* the roles of the anchors of the glyphs of output[i], without coordinates
RolesIn(i) ==
    [g \in DOMAIN output[i].anchors |->
        <<output[i].anchors[g][1],
          [a \in DOMAIN output[i].anchors[g][2] |->
              output[i].anchors[g][2][a].name]>>]

\* the anchors a build collects from the decompositions when it starts
\* with none
CollectedFromNone(i) ==
    add_ufo_glyphs(FontAt(i), glyph_order(bdf_font), 1,
                   [glyphs |-> EmptyMap, references |-> EmptyMap,
                    anchors |-> <<>>,
                    rng |-> [seed |-> config.random_seed, draws |-> 0],
                    log |-> <<>>]).anchors

(* C28: any two masters of a run have, glyph by glyph, the same list of     *)
(* referenced names (the constituents of a decomposed glyph in order, one   *)
(* "_" per ink pixel otherwise) and the same anchors, role by role at the   *)
(* same pixel positions; the anchors of a master are those collected from   *)
(* an empty accumulator; and a master is built with every variable axis at  *)
(* the value of that master and every other axis at its static value or,    *)
(* without one, its default.                                                *)
C28_SameStructure ==
    /\ \A i \in Written : \A j \in Written :
          /\ output[i].references = output[j].references
          /\ output[i].accumulated = output[j].accumulated
          /\ RolesIn(i) = RolesIn(j)
    /\ \A i \in Written :
          /\ DOMAIN output[i].references = DOMAIN bdf_font.glyphs
          /\ \A name \in DOMAIN bdf_font.glyphs :
                output[i].references[name] = ReferencesByRule(name)
          /\ output[i].accumulated = CollectedFromNone(i)
          /\ Keys(MasterOf(i).location) = ActiveAxes
          /\ \A axis \in DOMAIN axes_info :
                Get(output[i].location, axis) =
                   IF axis \in ActiveAxes
                   THEN Get(MasterOf(i).location, axis)
                   ELSE StaticOrDefault(axis)

\* four masters of a font with a decomposed glyph and anchors, the
\* horizontal spacing among the axes, so that coordinates differ
C28_Witness ==
    /\ pc = "done"
    /\ Cardinality(Written) = 4
    /\ "XESP" \in ActiveAxes
    /\ \E i \in Written :
          /\ output[i].accumulated # <<>>
          /\ \E name \in DOMAIN bdf_font.glyphs :
                /\ ~NotDecomposed(name)
                /\ \E j \in Written : output[i].glyphs[name] # output[j].glyphs[name]
          /\ \E j \in Written : output[i].anchors # output[j].anchors
          /\ \E axis \in DOMAIN axes_info :
                axis \notin ActiveAxes
                /\ Get(output[i].location, axis) # axes_info[axis].default

====
